---- MODULE Spec2Model ----
(***************************************************************************)
(* Model of the document generation core of invoice-doc:                   *)
(*   backend/app/services/storage_service.py      (StorageService)         *)
(*   backend/app/services/enhanced_pdf_service.py (EnhancedPDFService)     *)
(*   backend/app/routers/templates_router.py      (template endpoints)     *)
(***************************************************************************)
EXTENDS Integers, Sequences, FiniteSets, TLC

VARIABLES
    now,         \* wall clock, in ticks (TicksPerSecond ticks make a second)
    docStore,    \* uploads/documents: path -> bytes
    assetStore,  \* uploads/assets/<type>: path -> bytes
    assetDirs,   \* the type sub-directories of uploads/assets that exist
    saveLog,     \* history: the save_document / save_asset invocations made
    templateTable, \* document_templates rows: id -> row
    assetTable,  \* template_assets rows: id -> row
    gen,         \* the generate_document / preview_template requests
    del,         \* the delete_asset requests
    rin,         \* input of a rendering call
    rout,        \* its outcome
    pin,         \* input of a _process_assets call
    pout,        \* its outcome
    invoiceTable,   \* invoices rows: id -> row
    inventoryTable, \* inventory quantity of each product: sku -> quantity
    inventoryCache, \* the redis keys inventory:<sku>: sku -> value
    calls,       \* history: the requests answered, with their responses
    settings     \* app.core.config.settings, built when the process starts

vars == <<now, docStore, assetStore, assetDirs, saveLog, templateTable, assetTable,
          gen, del, rin, rout, pin, pout,
          invoiceTable, inventoryTable, inventoryCache, calls, settings>>

storeVars == <<now, docStore, assetStore, assetDirs, saveLog>>
reqVars == <<templateTable, assetTable, gen, del>>
pureVars == <<rin, rout, pin, pout>>
shopVars == <<invoiceTable, inventoryTable, inventoryCache, calls, settings>>

None == "None"

(***************************************************************************)
(* Bounds                                                                  *)
(***************************************************************************)
MaxLen == 2           \* longest byte payload
MaxAssets == 3        \* longest asset list given to _process_assets
MaxNodes == 2         \* longest markup drawn from MarkupNodes
MaxNow == 2           \* last clock tick
TicksPerSecond == 2   \* clock ticks within one strftime second
DocHashLen == 1       \* hex digits kept by hexdigest()[:8], scaled down
AssetHashLen == 2     \* hex digits kept by hexdigest()[:12], scaled down

ByteVals == 0..1

RECURSIVE SeqsUpTo(_, _)
SeqsUpTo(S, n) ==
    IF n = 0 THEN {<<>>}
    ELSE LET shorter == SeqsUpTo(S, n - 1)
         IN  shorter \cup {Append(s, x) : s \in {t \in shorter : Len(t) = n - 1}, x \in S}

Bytes == SeqsUpTo(ByteVals, MaxLen)

RECURSIVE SumSeq(_)
SumSeq(s) == IF s = <<>> THEN 0 ELSE Head(s) + SumSeq(Tail(s))

(***************************************************************************)
(* hashlib.md5(content).hexdigest(): a fixed-length digest that is a       *)
(* function of the content alone.  The digest has finitely many values and *)
(* the contents do not, so distinct contents share digests; the mixing     *)
(* below keeps that (and nothing else) of MD5.                             *)
(***************************************************************************)
Md5Hex(content) ==
    << SumSeq(content) % 2,
       Len(content) % 2,
       (IF content = <<>> THEN 0 ELSE Head(content)) % 2,
       (SumSeq(content) + Len(content)) % 2 >>

HashPrefix(content, n) == SubSeq(Md5Hex(content), 1, n)

\* datetime.now().strftime("%Y%m%d_%H%M%S"): the clock cut to whole seconds
Timestamp(t) == t \div TicksPerSecond

(***************************************************************************)
(* File names.  A name is kept parsed, as pathlib.Path sees it.            *)
(***************************************************************************)
FileName(parent, stem, suffix) == [parent |-> parent, stem |-> stem, suffix |-> suffix]

\* Path(filename).stem
Stem(filename) == filename.stem

\* str.lower() on a suffix
Lower(suffix) ==
    CASE suffix = ".PNG" -> ".png"
      [] suffix = ".SVG" -> ".svg"
      [] OTHER -> suffix

\* Path(filename).suffix.lower()
FileExt(filename) == Lower(filename.suffix)

allowed_extensions_and_exe == {".png", ".jpg", ".jpeg", ".gif", ".svg", ".webp", ".exe"}

allowed_extensions == {".png", ".jpg", ".jpeg", ".gif", ".svg", ".webp"}

RasterExtensions == {".png", ".jpg", ".jpeg", ".webp"}

_get_mime_type(file_ext) ==
    CASE file_ext = ".png"  -> "image/png"
      [] file_ext = ".jpg"  -> "image/jpeg"
      [] file_ext = ".jpeg" -> "image/jpeg"
      [] file_ext = ".gif"  -> "image/gif"
      [] file_ext = ".svg"  -> "image/svg+xml"
      [] file_ext = ".webp" -> "image/webp"
      [] OTHER -> "application/octet-stream"

AssetTypes == {"logo", "image", "signature", "watermark"}

(***************************************************************************)
(* Storage paths.  The f-strings join fixed-width timestamp and hash       *)
(* fields, so the string is determined by, and determines, its fields.     *)
(***************************************************************************)
DocumentPathNoHash(pdf_content, filename, t) ==
    [root |-> "documents", stem |-> Stem(filename), ts |-> Timestamp(t), hash |-> <<>>]

DocumentPath(pdf_content, filename, t) ==
    [root |-> "documents",
     stem |-> Stem(filename),
     ts   |-> Timestamp(t),
     hash |-> HashPrefix(pdf_content, DocHashLen)]

AssetPath(file_content, filename, asset_type, t) ==
    [root |-> "assets",
     type |-> asset_type,
     ts   |-> Timestamp(t),
     hash |-> HashPrefix(file_content, AssetHashLen),
     ext  |-> FileExt(filename)]

\* open(path, 'wb'); f.write(content): creates the file or replaces its content
WriteFile(store, path, content) ==
    [p \in DOMAIN store \cup {path} |-> IF p = path THEN content ELSE store[p]]

RemoveFile(store, path) == [p \in DOMAIN store \ {path} |-> store[p]]

EmptyStore == [p \in {} |-> <<>>]

(***************************************************************************)
(* StorageService.save_document and save_asset                             *)
(***************************************************************************)
FileNames ==
    { FileName("", "report", ".pdf"),
      FileName("", "report", ""),
      FileName("out/", "report", ".txt"),
      FileName("", "invoice", ".pdf") }

AssetFileNames ==
    { FileName("", "logo", ".png"),
      FileName("", "logo", ".PNG"),
      FileName("", "sign", ".svg"),
      FileName("", "tool", ".exe") }

\* the callers of the storage specification, one invocation each
Writers == {"w1", "w2"}

Called(w) == \E i \in DOMAIN saveLog : saveLog[i].by = w

\* what img.save(file_path, optimize=True, quality=85) may produce
ReencodedOutputs == {<<1>>, <<1, 0>>}

\* PIL.Image.open recognises an image by its leading bytes
IsImage(content) == content # <<>> /\ Head(content) = 1

save_document_write_short(store, path, pdf_content, k) ==
    WriteFile(store, path, SubSeq(pdf_content, 1, k - 1))

\* what open(file_path, 'wb') + f.write(pdf_content) leaves on disk when the
\* write stops after k bytes (k = Len(pdf_content): the whole payload)
save_document_write(store, path, pdf_content, k) ==
    WriteFile(store, path, SubSeq(pdf_content, 1, k))

\* save_document called at clock t; it returns the path when the whole
\* payload was written and raises OSError otherwise
SaveDocument(w, pdf_content, filename, k) ==
    LET path == DocumentPath(pdf_content, filename, now)
    IN  /\ k \in 0..Len(pdf_content)
        /\ docStore' = save_document_write(docStore, path, pdf_content, k)
        /\ saveLog' = Append(saveLog,
               [by |-> w, op |-> "save_document", content |-> pdf_content,
                name |-> Stem(filename), path |-> path,
                written |-> save_document_write(docStore, path, pdf_content, k)[path],
                returned |-> (k = Len(pdf_content))])

CallSaveDocument(w, pdf_content, filename, k) ==
    /\ ~Called(w)
    /\ SaveDocument(w, pdf_content, filename, k)
    /\ UNCHANGED <<now, assetStore, assetDirs, reqVars, pureVars, shopVars>>

NoResult == [t |-> "none"]

\* an exception raised by save_asset, with the text of str(e)
Raised(type, message) == [type |-> type, message |-> message]

\* line 55: ValueError(f"File type {file_ext} not allowed. Allowed: {allowed_extensions}")
NotAllowed(file_ext) ==
    Raised("ValueError", <<"File type ", file_ext, " not allowed. Allowed: ", allowed_extensions>>)

\* lines 67-71: the metadata save_asset returns, built before the file is written
Metadata(file_content, file_ext, path) ==
    [file_path |-> path, file_size |-> Len(file_content), mime_type |-> _get_mime_type(file_ext)]

\* save_asset(file, filename, asset_type, optimize=True); stored is what
\* img.save() writes for a raster image (PIL's re-encoding of the input)
SaveAsset(w, file_content, filename, asset_type, stored) ==
    LET file_ext == FileExt(filename)
        path == AssetPath(file_content, filename, asset_type, now)
        entry == [by |-> w, op |-> "save_asset", content |-> file_content,
                  name |-> asset_type, path |-> path,
                  written |-> IF FileExt(filename) \in RasterExtensions THEN stored
                              ELSE file_content,
                  returned |-> TRUE,
                  error |-> NoResult,
                  metadata |-> Metadata(file_content, file_ext, path)]
    IN  IF file_ext \notin allowed_extensions
        THEN \* raise ValueError before anything is created
             /\ saveLog' = Append(saveLog, [entry EXCEPT !.returned = FALSE, !.written = <<>>,
                                               !.error = NotAllowed(file_ext),
                                               !.metadata = NoResult])
             /\ UNCHANGED <<assetStore, assetDirs>>
        ELSE /\ assetDirs' = assetDirs \cup {asset_type}
             /\ IF file_ext \in RasterExtensions
                THEN IF IsImage(file_content)
                     THEN /\ stored \in ReencodedOutputs
                          /\ assetStore' = WriteFile(assetStore, path, stored)
                          /\ saveLog' = Append(saveLog, entry)
                     ELSE \* Image.open raises: no file is written
                          /\ assetStore' = assetStore
                          /\ saveLog' = Append(saveLog,
                                 [entry EXCEPT !.returned = FALSE, !.written = <<>>,
                                               !.error = Raised("UnidentifiedImageError",
                                                                <<"cannot identify image file">>),
                                               !.metadata = NoResult])
                ELSE /\ assetStore' = WriteFile(assetStore, path, file_content)
                     /\ saveLog' = Append(saveLog, entry)

CallSaveAsset(w, file_content, filename, asset_type, stored) ==
    /\ ~Called(w)
    /\ SaveAsset(w, file_content, filename, asset_type, stored)
    /\ UNCHANGED <<now, docStore, reqVars, pureVars, shopVars>>

Tick ==
    /\ now < MaxNow
    /\ now' = now + 1
    /\ UNCHANGED <<docStore, assetStore, assetDirs, saveLog, reqVars, pureVars, shopVars>>

InitStore ==
    /\ now = 0
    /\ docStore = EmptyStore
    /\ assetStore = EmptyStore
    /\ assetDirs = {}
    /\ saveLog = <<>>

\* the environment of the process (and its .env file): variable -> text
EmptyEnv == <<>>

\* Settings(): a field takes the environment's text when the variable is
\* set, whatever the text, and its declared default otherwise
Settings(env) ==
    [DEFAULT_FONT_FAMILY |->
         IF "DEFAULT_FONT_FAMILY" \in DOMAIN env THEN env["DEFAULT_FONT_FAMILY"]
         ELSE "Inter, -apple-system, BlinkMacSystemFont, sans-serif",
     PDF_PAGE_SIZE |->
         IF "PDF_PAGE_SIZE" \in DOMAIN env THEN env["PDF_PAGE_SIZE"] ELSE "A4"]

InitNoShop ==
    /\ settings = Settings(EmptyEnv)
    /\ invoiceTable = <<>>
    /\ inventoryTable = <<>>
    /\ inventoryCache = <<>>
    /\ calls = <<>>

InitNoRequests ==
    /\ InitNoShop
    /\ templateTable = <<>>
    /\ assetTable = <<>>
    /\ gen = <<>>
    /\ del = <<>>

InitNoCalls ==
    /\ rin = NoResult
    /\ rout = NoResult
    /\ pin = <<>>
    /\ pout = NoResult

InitIdle == InitNoRequests /\ InitNoCalls

InitStorage == InitStore /\ InitIdle

NextStorage ==
    \/ Tick
    \/ \E w \in Writers, c \in Bytes, fn \in FileNames :
           \E k \in {0, Len(c)} : CallSaveDocument(w, c, fn, k)
    \/ \E w \in Writers, c \in Bytes, fn \in AssetFileNames, ty \in {"logo", "image"},
          s \in ReencodedOutputs :
           CallSaveAsset(w, c, fn, ty, s)

SpecStorage == InitStorage /\ [][NextStorage]_vars

Returned(i) == saveLog[i].returned

\* C1: every invocation of save_document returns a path that differs from
\* the path returned by every other invocation, identical content and
\* filename within one clock second included.
C1_UniquePerInvocation ==
    \A i, j \in DOMAIN saveLog :
        ( /\ i # j
          /\ saveLog[i].op = "save_document" /\ saveLog[j].op = "save_document"
          /\ Returned(i) /\ Returned(j) )
        => saveLog[i].path # saveLog[j].path

LogHash(i) ==
    IF saveLog[i].op = "save_document"
    THEN HashPrefix(saveLog[i].content, DocHashLen)
    ELSE HashPrefix(saveLog[i].content, AssetHashLen)

Str(pieces) == [t |-> "str", v |-> pieces]
BytesVal(b) == [t |-> "bytes", v |-> b]
Num(hundredths) == [t |-> "num", v |-> hundredths]
Date(y, m, d) == [t |-> "date", v |-> <<y, m, d>>]
Map(f) == [t |-> "map", v |-> f]
Undefined == [t |-> "undefined", v |-> None]
Markup(pieces) == [t |-> "markup", v |-> pieces]
IntVal(n) == [t |-> "int", v |-> n]
NoneVal == [t |-> "none", v |-> None]
List(items) == [t |-> "list", v |-> items]
Err(e) == [t |-> "error", v |-> e, cause |-> None]
Wrapped(e, cause) == [t |-> "error", v |-> e, cause |-> cause]

Text(text) == [kind |-> "text", text |-> text]
Var(path, filters) == [kind |-> "var", path |-> path, filters |-> filters]
Filter(name, arg) == [name |-> name, arg |-> arg]

Digits == <<"0", "1", "2", "3", "4", "5", "6", "7", "8", "9">>

RECURSIVE DecimalDigits(_)
\* the decimal digits of a natural number, most significant first
DecimalDigits(n) ==
    IF n < 10 THEN <<Digits[n + 1]>>
    ELSE Append(DecimalDigits(n \div 10), Digits[(n % 10) + 1])

RECURSIVE GroupThousands(_)
\* the ',' option of the format mini-language
GroupThousands(n) ==
    IF n < 1000 THEN DecimalDigits(n)
    ELSE LET low == n % 1000
         IN  GroupThousands(n \div 1000) \o <<",">> \o
             <<Digits[(low \div 100) + 1], Digits[((low \div 10) % 10) + 1],
               Digits[(low % 10) + 1]>>

Abs(x) == IF x < 0 THEN -x ELSE x

\* f"{value:,.2f}" for a value given in hundredths
FormatFixed2(h) ==
    (IF h < 0 THEN <<"-">> ELSE <<>>) \o GroupThousands(Abs(h) \div 100) \o
    <<".", Digits[((Abs(h) % 100) \div 10) + 1], Digits[(Abs(h) % 10) + 1]>>

\* str(value) of a float given in hundredths: shortest repr, one digit at least
StrFloat(h) ==
    (IF h < 0 THEN <<"-">> ELSE <<>>) \o DecimalDigits(Abs(h) \div 100) \o <<".">> \o
    (IF Abs(h) % 10 = 0 THEN <<Digits[((Abs(h) % 100) \div 10) + 1]>>
     ELSE <<Digits[((Abs(h) % 100) \div 10) + 1], Digits[(Abs(h) % 10) + 1]>>)

MonthNames == <<"January", "February", "March", "April", "May", "June", "July",
                "August", "September", "October", "November", "December">>

\* EnhancedPDFService._format_currency(value, currency="USD")
_format_currency(value, currency) ==
    LET symbol == CASE currency = "USD" -> "$"
                    [] currency = "EUR" -> "(euro)"
                    [] currency = "GBP" -> "(pound)"
                    [] currency = "INR" -> "(rupee)"
                    [] OTHER -> currency
    IN  IF value.t = "num" THEN Str(<<symbol>> \o FormatFixed2(value.v))
        ELSE IF value.t = "int" THEN Str(<<symbol>> \o FormatFixed2(value.v * 100))
        ELSE IF value.t = "str" THEN Err("ValueError")  \* unknown format code 'f' for str
        ELSE Err("TypeError")  \* unsupported format string

\* EnhancedPDFService._format_date(value, format_str="%B %d, %Y")
_format_date(value) ==
    IF value.t = "date"
    THEN Str(<<MonthNames[value.v[2]], " ">> \o
             (IF value.v[3] < 10 THEN <<"0">> ELSE <<>>) \o DecimalDigits(value.v[3]) \o
             <<", ">> \o DecimalDigits(value.v[1]))
    ELSE IF value.t = "str"
    THEN Err("ValueError")      \* fromisoformat on text that is no ISO date
    ELSE Err("AttributeError")  \* no strftime

B64Alphabet ==
    << "A", "B", "C", "D", "E", "F", "G", "H", "I", "J", "K", "L", "M", "N", "O", "P",
       "Q", "R", "S", "T", "U", "V", "W", "X", "Y", "Z", "a", "b", "c", "d", "e", "f",
       "g", "h", "i", "j", "k", "l", "m", "n", "o", "p", "q", "r", "s", "t", "u", "v",
       "w", "x", "y", "z", "0", "1", "2", "3", "4", "5", "6", "7", "8", "9", "+", "/" >>

RECURSIVE b64encode(_)
\* base64.b64encode(content).decode('utf-8'): three bytes to four characters
b64encode(b) ==
    IF Len(b) = 0 THEN <<>>
    ELSE IF Len(b) = 1
    THEN << B64Alphabet[(b[1] \div 4) + 1], B64Alphabet[((b[1] % 4) * 16) + 1], "=", "=" >>
    ELSE IF Len(b) = 2
    THEN << B64Alphabet[(b[1] \div 4) + 1],
            B64Alphabet[((b[1] % 4) * 16 + (b[2] \div 16)) + 1],
            B64Alphabet[((b[2] % 16) * 4) + 1], "=" >>
    ELSE << B64Alphabet[(b[1] \div 4) + 1],
            B64Alphabet[((b[1] % 4) * 16 + (b[2] \div 16)) + 1],
            B64Alphabet[((b[2] % 16) * 4 + (b[3] \div 64)) + 1],
            B64Alphabet[(b[3] % 64) + 1] >> \o b64encode(SubSeq(b, 4, Len(b)))

\* EnhancedPDFService._b64_encode_filter(value)
_b64_encode_filter(value) ==
    IF value.t = "bytes" THEN Str(b64encode(value.v))
    ELSE Err("TypeError")  \* a bytes-like object is required

\* the filters every jinja2 Environment has (those the model uses)
BuiltinFilters == {"upper", "safe"}

\* self.jinja_env.filters[...] = ...
CustomFilters == {"b64encode", "format_currency", "format_date"}

UpperPiece(piece) ==
    CASE piece = "Acme" -> "ACME"
      [] piece = "<b>" -> "<B>"
      [] OTHER -> piece

\* markupsafe.escape on one piece of text
EscapePiece(piece) ==
    CASE piece = "<b>" -> "&lt;b&gt;"
      [] piece = "<B>" -> "&lt;B&gt;"
      [] piece = "A&B" -> "A&amp;B"
      [] OTHER -> piece

\* str.upper() of a text
Upper(text) == [i \in DOMAIN text |-> UpperPiece(text[i])]

\* markupsafe.escape of a text
Escape(text) == [i \in DOMAIN text |-> EscapePiece(text[i])]

\* str(value), as jinja2 writes a value into the output.  A mapping and a
\* list are written as their repr, abbreviated here to one piece.
ToText(value) ==
    CASE value.t = "str" -> value.v
      [] value.t = "markup" -> value.v
      [] value.t = "undefined" -> <<>>
      [] value.t = "num" -> StrFloat(value.v)
      [] value.t = "int" -> (IF value.v < 0 THEN <<"-">> ELSE <<>>) \o DecimalDigits(Abs(value.v))
      [] value.t = "none" -> <<"None">>
      [] value.t = "list" -> <<"[...]">>
      [] value.t = "date" -> DecimalDigits(value.v[1]) \o <<"-">> \o
                             DecimalDigits(value.v[2]) \o <<"-">> \o
                             DecimalDigits(value.v[3]) \o <<" 00:00:00">>
      [] value.t = "bytes" -> <<"b'">> \o [i \in DOMAIN value.v |-> Digits[value.v[i] + 1]] \o <<"'">>
      [] OTHER -> <<"{...}">>

RECURSIVE Lookup(_, _, _)
\* jinja2 name and attribute lookup along a dotted path; cur is the value
\* reached so far (the context itself as a mapping at the start)
Lookup(cur, path, i) ==
    IF i > Len(path) THEN cur
    ELSE IF cur.t = "undefined" THEN Err("UndefinedError")
    ELSE IF cur.t = "map" /\ path[i] \in DOMAIN cur.v THEN Lookup(cur.v[path[i]], path, i + 1)
    ELSE Lookup(Undefined, path, i + 1)

\* one filter call
ApplyFilter(value, f) ==
    CASE f.name = "format_currency" ->
            _format_currency(value, IF f.arg = None THEN "USD" ELSE f.arg)
      [] f.name = "format_date" -> _format_date(value)
      [] f.name = "b64encode" -> _b64_encode_filter(value)
      [] f.name = "upper" -> Str(Upper(ToText(value)))
      [] f.name = "safe" -> Markup(ToText(value))
      [] OTHER -> Err("TemplateRuntimeError")

RECURSIVE ApplyFilters(_, _, _)
ApplyFilters(value, filters, i) ==
    IF i > Len(filters) \/ value.t = "error" THEN value
    ELSE ApplyFilters(ApplyFilter(value, filters[i]), filters, i + 1)

\* how the value of an expression is written out: escaped under autoescape
\* unless it is Markup
Emit(value, autoescape) ==
    IF value.t = "error" THEN value
    ELSE IF autoescape /\ value.t # "markup"
    THEN Str(Escape(ToText(value)))
    ELSE Str(ToText(value))

\* the text one node contributes, or the error it raises
RenderNode(node, context, autoescape) ==
    IF node.kind = "text" THEN Str(<<node.text>>)
    ELSE Emit(ApplyFilters(Lookup(Map(context), node.path, 1), node.filters, 1), autoescape)

RECURSIVE Join(_, _, _)
\* the output up to the first node that raises, which ends the rendering
Join(rendered, i, out) ==
    IF i > Len(rendered) THEN Str(out)
    ELSE IF rendered[i].t = "error" THEN rendered[i]
    ELSE Join(rendered, i + 1, out \o rendered[i].v)

\* template.render(context): the nodes in order
RenderNodes(nodes, context, autoescape) ==
    Join([i \in DOMAIN nodes |-> RenderNode(nodes[i], context, autoescape)], 1, <<>>)

FiltersUsed(nodes) ==
    UNION { {nodes[i].filters[j].name : j \in DOMAIN nodes[i].filters} :
            i \in {k \in DOMAIN nodes : nodes[k].kind = "var"} }

KeepKnown(filters, node) ==
    IF node.kind = "text" THEN node
    ELSE [node EXCEPT !.filters = SelectSeq(node.filters, LAMBDA f : f.name \in filters)]

CompileAndRenderIgnoringUnknown(filters, autoescape, nodes, context) ==
    RenderNodes([i \in DOMAIN nodes |-> KeepKnown(filters, nodes[i])], context, autoescape)

\* compiling a template source in an environment, then template.render(context):
\* a filter name the environment does not have fails the compilation
CompileAndRender(filters, autoescape, nodes, context) ==
    IF ~(FiltersUsed(nodes) \subseteq filters) THEN Err("TemplateAssertionError")
    ELSE RenderNodes(nodes, context, autoescape)

TemplateRenderStamped(html_content, context) ==
    LET r == CompileAndRender(BuiltinFilters, FALSE, html_content, context)
    IN  IF r.t = "error" THEN r ELSE Str(r.v \o DecimalDigits(now))

\* Template(html_content).render(context): a template of the default
\* environment, which has the built-in filters and no autoescaping
TemplateRender(html_content, context) ==
    CompileAndRender(BuiltinFilters, FALSE, html_content, context)

\* self.jinja_env.get_template(template_name).render(context), in the
\* environment of __init__ (autoescape=True, the three custom filters added)
EnvRender(source, context) ==
    CompileAndRender(BuiltinFilters \cup CustomFilters, TRUE, source, context)

\* raise ValueError(f"Template rendering failed: {str(e)}")
AsValueError(r) == IF r.t = "error" THEN Wrapped("ValueError", r.v) ELSE r

\* EnhancedPDFService._render_template: every exception becomes a ValueError
_render_template(templates_dir, template_name, context) ==
    IF template_name \notin DOMAIN templates_dir
    THEN Wrapped("ValueError", "TemplateNotFound")
    ELSE AsValueError(EnvRender(templates_dir[template_name], context))

(***************************************************************************)
(* EnhancedPDFService._process_assets                                      *)
(* An asset is a dict: a function from the keys it has to their values.    *)
(***************************************************************************)
NoPath == [root |-> "none"]

\* dict.get(key, default)
Get(d, key, default) == IF key \in DOMAIN d THEN d[key] ELSE default

\* d[key] = value
SetKey(d, key, value) == [k \in DOMAIN d \cup {key} |-> IF k = key THEN value ELSE d[k]]

DataUrlTruncated(mime_type, file_content) ==
    <<"data:", mime_type, ";base64,">> \o
    b64encode(SubSeq(file_content, 1, Len(file_content) - 1))

\* f"data:{mime_type};base64,{base64_data}"
DataUrl(mime_type, file_content) ==
    <<"data:", mime_type, ";base64,">> \o b64encode(file_content)

EmptyProcessed == [logo |-> <<>>, images |-> <<>>]

\* line 115 without the os.path.exists test
SkipAssetPathOnly(asset, store) ==
    Get(asset, "file_path", NoPath) = NoPath

\* line 115: not file_path or not os.path.exists(file_path)
SkipAsset(asset, store) ==
    \/ Get(asset, "file_path", NoPath) = NoPath
    \/ Get(asset, "file_path", NoPath) \notin DOMAIN store

EmbedAssetKeepFirst(processed, asset, file_content) ==
    LET data_url == DataUrl(Get(asset, "mime_type", "image/png"), file_content)
    IN  IF Get(asset, "asset_type", "image") = "logo" \/ Get(asset, "is_default", FALSE)
        THEN IF processed.logo # <<>> THEN processed
             ELSE [processed EXCEPT !.logo =
                     << [data_url |-> data_url,
                         width |-> Get(asset, "width", NoneVal),
                         height |-> Get(asset, "height", NoneVal),
                         display_config |-> Get(asset, "display_config", Map(<<>>))] >>]
        ELSE [processed EXCEPT !.images =
                 Append(@, [data_url |-> data_url,
                            name |-> Get(asset, "name", NoneVal),
                            width |-> Get(asset, "width", NoneVal),
                            height |-> Get(asset, "height", NoneVal)])]

EmbedAssetPrepend(processed, asset, file_content) ==
    LET data_url == DataUrl(Get(asset, "mime_type", "image/png"), file_content)
    IN  IF Get(asset, "asset_type", "image") = "logo" \/ Get(asset, "is_default", FALSE)
        THEN [processed EXCEPT !.logo =
                 << [data_url |-> data_url,
                     width |-> Get(asset, "width", NoneVal),
                     height |-> Get(asset, "height", NoneVal),
                     display_config |-> Get(asset, "display_config", Map(<<>>))] >>]
        ELSE [processed EXCEPT !.images =
                 << [data_url |-> data_url,
                     name |-> Get(asset, "name", NoneVal),
                     width |-> Get(asset, "width", NoneVal),
                     height |-> Get(asset, "height", NoneVal)] >> \o @]

\* lines 122-143: encode the bytes read and store the entry by type.  The
\* 'logo' key holds at most one entry and 'images' is absent until used:
\* both are kept as sequences, empty when the key is absent.
EmbedAsset(processed, asset, file_content) ==
    LET data_url == DataUrl(Get(asset, "mime_type", "image/png"), file_content)
    IN  IF Get(asset, "asset_type", "image") = "logo" \/ Get(asset, "is_default", FALSE)
        THEN [processed EXCEPT !.logo =
                 << [data_url |-> data_url,
                     width |-> Get(asset, "width", NoneVal),
                     height |-> Get(asset, "height", NoneVal),
                     display_config |-> Get(asset, "display_config", Map(<<>>))] >>]
        ELSE [processed EXCEPT !.images =
                 Append(@, [data_url |-> data_url,
                            name |-> Get(asset, "name", NoneVal),
                            width |-> Get(asset, "width", NoneVal),
                            height |-> Get(asset, "height", NoneVal)])]

RECURSIVE ProcessFrom(_, _, _, _)
\* the loop of _process_assets over a store that does not change meanwhile
ProcessFrom(assets, store, i, processed) ==
    IF i > Len(assets) THEN [t |-> "ok", v |-> processed]
    ELSE IF SkipAsset(assets[i], store) THEN ProcessFrom(assets, store, i + 1, processed)
    ELSE IF assets[i].file_path \notin DOMAIN store THEN Err("FileNotFoundError")
    ELSE ProcessFrom(assets, store, i + 1,
                     EmbedAsset(processed, assets[i], store[assets[i].file_path]))

_process_assets(assets, store) == ProcessFrom(assets, store, 1, EmptyProcessed)

(***************************************************************************)
(* EnhancedPDFService.generate_pdf after its assets are processed          *)
(***************************************************************************)
BoolVal(b) == [t |-> "bool", v |-> b]

\* Python truth value
Truthy(value) ==
    CASE value.t = "none" -> FALSE
      [] value.t = "undefined" -> FALSE
      [] value.t = "bool" -> value.v
      [] value.t = "str" -> value.v # <<>> /\ value.v # <<"">>
      [] value.t = "int" -> value.v # 0
      [] value.t = "num" -> value.v # 0
      [] OTHER -> TRUE

\* settings (app/core/config.py)
DEFAULT_FONT_FAMILY == Str(<<settings.DEFAULT_FONT_FAMILY>>)
PDF_PAGE_SIZE == settings.PDF_PAGE_SIZE

_get_branding_config_defaults(config) ==
    [primary_color   |-> Str(<<"#1E40AF">>),
     secondary_color |-> Str(<<"#64748B">>),
     accent_color    |-> Str(<<"#F59E0B">>),
     font_family     |-> DEFAULT_FONT_FAMILY,
     logo_position   |-> Str(<<"header-left">>),
     logo_width      |-> IntVal(150)]

_get_branding_config(config) ==
    [primary_color   |-> Get(config, "primary_color", Str(<<"#1E40AF">>)),
     secondary_color |-> Get(config, "secondary_color", Str(<<"#64748B">>)),
     accent_color    |-> Get(config, "accent_color", Str(<<"#F59E0B">>)),
     font_family     |-> Get(config, "font_family", DEFAULT_FONT_FAMILY),
     logo_position   |-> Get(config, "logo_position", Str(<<"header-left">>)),
     logo_width      |-> Get(config, "logo_width", IntVal(150))]

Rule(selector, property, value) ==
    [selector |-> selector, property |-> property, value |-> value]

\* the rules of base_css that the configuration reaches, in their order, and
\* the .watermark rule; then the custom CSS when there is some
base_css(branding) ==
    << Rule("@page", "size", <<PDF_PAGE_SIZE>>),
       Rule("body", "font-family", ToText(branding.font_family)),
       Rule(".header", "border-bottom", <<"2px solid ">> \o ToText(branding.primary_color)),
       Rule(".logo", "max-width", ToText(branding.logo_width) \o <<"px">>),
       Rule("h1, h2, h3, h4, h5, h6", "color", ToText(branding.primary_color)),
       Rule("th", "color", ToText(branding.primary_color)),
       Rule(".highlight", "background-color", ToText(branding.accent_color) \o <<"20">>),
       Rule(".highlight", "border-left", <<"4px solid ">> \o ToText(branding.accent_color)),
       Rule(".watermark", "transform", <<"translate(-50%, -50%) rotate(-45deg)">>) >>

custom_rules_truncated(custom_css) ==
    IF Truthy(custom_css)
    THEN << Rule("/* Custom CSS */", "", SubSeq(ToText(custom_css), 1, 0)) >>
    ELSE <<>>

\* if custom_css: base_css += f"\n\n/* Custom CSS */\n{custom_css}"
custom_rules(custom_css) ==
    IF Truthy(custom_css) THEN << Rule("/* Custom CSS */", "", ToText(custom_css)) >> ELSE <<>>

_generate_css(branding_config, custom_css) ==
    base_css(_get_branding_config(branding_config)) \o custom_rules(custom_css)

\* the context as the template sees an entry of processed assets
LogoValue(e) ==
    Map([data_url |-> Str(e.data_url), width |-> e.width, height |-> e.height,
         display_config |-> e.display_config])

ImageValue(e) ==
    Map([data_url |-> Str(e.data_url), name |-> e.name, width |-> e.width,
         height |-> e.height])

AssetsValue(processed) ==
    LET images == List([i \in DOMAIN processed.images |-> ImageValue(processed.images[i])])
    IN  IF processed.logo # <<>> /\ processed.images # <<>>
        THEN Map([logo |-> LogoValue(processed.logo[1]), images |-> images])
        ELSE IF processed.logo # <<>> THEN Map([logo |-> LogoValue(processed.logo[1])])
        ELSE IF processed.images # <<>> THEN Map([images |-> images])
        ELSE Map(<<>>)

\* lines 75-87 (no QR code is requested by the callers modelled)
\* lines 75-76: if assets: context['assets'] = processed_assets
WithAssets(context, has_assets, processed) ==
    IF has_assets THEN SetKey(context, "assets", AssetsValue(processed)) ELSE context

\* lines 79-80
WithBranding(context, branding_config) ==
    SetKey(context, "branding", Map(_get_branding_config(branding_config)))

\* lines 83-84
WithWatermark(context, branding_config, watermark_text) ==
    IF Truthy(watermark_text) \/ Truthy(Get(branding_config, "show_watermark", NoneVal))
    THEN SetKey(context, "watermark",
                IF Truthy(watermark_text) THEN watermark_text
                ELSE Get(branding_config, "watermark_text", Str(<<"DRAFT">>)))
    ELSE context

\* lines 75-87 (no QR code is requested by the callers modelled)
PdfContext(context, has_assets, processed, branding_config, watermark_text) ==
    WithWatermark(WithBranding(WithAssets(context, has_assets, processed), branding_config),
                  branding_config, watermark_text)

\* lines 89-97
RenderHtml(templates_dir, template_name, html_content, context) ==
    IF template_name # "" THEN _render_template(templates_dir, template_name, context)
    ELSE IF html_content # <<>> THEN TemplateRender(html_content, context)
    ELSE Err("ValueError")

\* what weasyprint can make of a document: some PDF bytes, or a failure
PdfOutputs == {<<1>>, <<1, 0>>, <<0, 1>>}
EncoderOutcomes == PdfOutputs \cup {<<>>}

\* _html_to_pdf: encoded is the encoder's outcome (<<>>: it raised)
_html_to_pdf(html, css, encoded) ==
    IF encoded = <<>> THEN Err("RenderError") ELSE [t |-> "pdf", v |-> encoded]

\* lines 99-105: the bytes, with what they were made from, or the error raised
PdfOf(html, css, context, encoded) ==
    IF html.t = "error" THEN html
    ELSE IF encoded = <<>> THEN _html_to_pdf(html, css, encoded)
    ELSE [t |-> "pdf", v |-> _html_to_pdf(html, css, encoded).v, html |-> html.v,
          css |-> css, context |-> context]

\* lines 89-105, with the context of lines 75-87
PdfWith(templates_dir, template_name, html_content, context, css, encoded) ==
    PdfOf(RenderHtml(templates_dir, template_name, html_content, context), css, context, encoded)

\* lines 42-105 after _process_assets
GeneratePdf(templates_dir, template_name, html_content, context, css_content, has_assets, processed, branding_config, watermark_text, encoded) ==
    PdfWith(templates_dir, template_name, html_content,
            PdfContext(context, has_assets, processed, branding_config, watermark_text),
            _generate_css(branding_config, css_content), encoded)

(***************************************************************************)
(* _process_assets as a function of the asset list and the asset store     *)
(***************************************************************************)
LogoFile == [root |-> "assets", type |-> "logo", ts |-> 0, hash |-> <<1, 1>>, ext |-> ".png"]
ImageFile == [root |-> "assets", type |-> "image", ts |-> 0, hash |-> <<1, 0>>, ext |-> ".png"]
GoneFile == [root |-> "assets", type |-> "image", ts |-> 1, hash |-> <<0, 1>>, ext |-> ".svg"]

AssetDict(asset_type, file_path, mime_type, is_default) ==
    [asset_type |-> asset_type, file_path |-> file_path, mime_type |-> mime_type,
     width |-> IntVal(150), height |-> NoneVal, is_default |-> is_default,
     display_config |-> Map(<<>>)]

AssetDicts ==
    { AssetDict("logo", LogoFile, "image/png", FALSE),
      AssetDict("image", ImageFile, "image/png", FALSE),
      AssetDict("image", ImageFile, "image/png", TRUE),
      AssetDict("image", GoneFile, "image/svg+xml", FALSE),
      AssetDict("logo", GoneFile, "image/svg+xml", TRUE),
      AssetDict("signature", NoPath, "image/png", FALSE),
      [asset_type |-> "image", is_default |-> FALSE] }

AssetStores ==
    { (LogoFile :> <<1>>) @@ (ImageFile :> <<1, 0>>),
      (ImageFile :> <<1, 1>>),
      (ImageFile :> <<1, 0>>) @@ (GoneFile :> <<255, 16, 3, 200>>) }

InitAssets ==
    /\ now = 0
    /\ docStore = EmptyStore
    /\ assetStore \in AssetStores
    /\ assetDirs = {"logo", "image"}
    /\ saveLog = <<>>
    /\ InitNoRequests
    /\ rin = NoResult
    /\ rout = NoResult
    /\ pin \in SeqsUpTo(AssetDicts, MaxAssets)
    /\ pout = NoResult

\* one call of _process_assets(assets)
ProcessCall ==
    /\ pout = NoResult
    /\ pout' = _process_assets(pin, assetStore)
    /\ UNCHANGED <<storeVars, reqVars, rin, rout, pin, shopVars>>

NextAssets == ProcessCall

SpecAssets == InitAssets /\ [][NextAssets]_vars

FileExists(asset) ==
    /\ "file_path" \in DOMAIN asset
    /\ asset.file_path # NoPath
    /\ asset.file_path \in DOMAIN assetStore

LogoClass(asset) ==
    \/ ("asset_type" \in DOMAIN asset /\ asset.asset_type = "logo")
    \/ ("is_default" \in DOMAIN asset /\ asset.is_default)

\* C7: _process_assets completes without error, embeds exactly the assets
\* whose file_path is set and whose file exists (one images entry per such
\* image, a logo entry iff there is such a logo), and an asset whose file is
\* missing or absent changes nothing: the result is the one for the list
\* without it.
C7_MissingFilesOmitted ==
    pout # NoResult =>
        /\ pout.t = "ok"
        /\ pout = _process_assets(SelectSeq(pin, FileExists), assetStore)
        /\ Len(pout.v.images) =
               Len(SelectSeq(pin, LAMBDA a : FileExists(a) /\ ~LogoClass(a)))
        /\ (pout.v.logo # <<>>) <=> (\E i \in DOMAIN pin : FileExists(pin[i]) /\ LogoClass(pin[i]))

\* a list holding an asset with a file, one whose file is missing and one
\* without file_path has been processed
C7_Witness ==
    /\ pout # NoResult
    /\ \E i, j, k \in DOMAIN pin :
          /\ FileExists(pin[i])
          /\ "file_path" \in DOMAIN pin[j] /\ pin[j].file_path \notin DOMAIN assetStore \cup {NoPath}
          /\ "file_path" \notin DOMAIN pin[k]


(***************************************************************************)
(* The responses of generate_document and preview_template                 *)
(***************************************************************************)
HttpError(status, detail) == [type |-> "http_error", status |-> status, detail |-> detail]

\* raise HTTPException(status_code=404, detail="Template not found")
TemplateNotFoundResponse == HttpError(404, <<"Template not found">>)

\* str(e) of an exception value
ErrText(e) == IF e.cause = None THEN <<e.v>> ELSE <<e.v, ": ", e.cause>>

GenerationFailedAsHttpError(e) ==
    HttpError(500, <<"PDF generation failed: ">> \o ErrText(e))

\* generate_document, lines 408-412; an Optional[int] is a sequence of at
\* most one number, an Optional path is NoPath when None
GenerationFailed(e) ==
    [type |-> "result", success |-> FALSE, pdf_url |-> NoPath, pdf_size |-> <<>>,
     message |-> <<"Document generation failed: ">> \o ErrText(e)]

GenerationSucceededShort(pdf_path, pdf_bytes) ==
    [type |-> "result", success |-> TRUE, pdf_url |-> pdf_path,
     pdf_size |-> <<Len(pdf_bytes) - 1>>, message |-> <<"Document generated successfully">>]

\* generate_document, lines 401-406
GenerationSucceeded(pdf_path, pdf_bytes) ==
    [type |-> "result", success |-> TRUE, pdf_url |-> pdf_path,
     pdf_size |-> <<Len(pdf_bytes)>>, message |-> <<"Document generated successfully">>]

\* preview_template, lines 349-353
PreviewSucceeded(pdf_bytes) ==
    [type |-> "pdf_response", content |-> pdf_bytes, media_type |-> "application/pdf"]

\* preview_template, lines 355-356
PreviewFailed(e) == HttpError(500, <<"PDF generation failed: ">> \o ErrText(e))

(***************************************************************************)
(* Rendering as a function of the template text and the context            *)
(***************************************************************************)
NameNode == Var(<<"customer", "name">>, <<>>)
CurrencyNode == Var(<<"total">>, <<Filter("format_currency", None)>>)

MarkupNodes ==
    { Text("Hello "),
      NameNode,
      CurrencyNode,
      Var(<<"total">>, <<Filter("format_currency", "EUR")>>),
      Var(<<"total">>, <<>>),
      Var(<<"customer", "name">>, <<Filter("upper", None)>>),
      Var(<<"customer", "name">>, <<Filter("safe", None)>>),
      Var(<<"total">>, <<Filter("shout", None)>>),
      Var(<<"issued">>, <<Filter("format_date", None)>>),
      Var(<<"blob">>, <<Filter("b64encode", None)>>),
      Var(<<"order", "id">>, <<>>) }

HelloMarkup == << Text("Hello "), NameNode, Text(", total "), CurrencyNode >>

Markups == SeqsUpTo(MarkupNodes, MaxNodes) \cup {HelloMarkup}

AcmeContext == [customer |-> Map([name |-> Str(<<"Acme">>)]), total |-> Num(123450)]

Contexts ==
    { AcmeContext,
      [customer |-> Map([name |-> Str(<<"<b>">>)]), total |-> Num(-500),
       issued |-> Date(2024, 1, 5), blob |-> BytesVal(<<1, 0>>)],
      <<>> }

TemplateFile == "invoice_modern.html"

InitRender ==
    /\ InitStore
    /\ InitNoRequests
    /\ pin = <<>>
    /\ pout = NoResult
    /\ rin \in [path : {"template_name", "html_content"}, markup : Markups,
                context : Contexts]
    /\ rout = NoResult

\* the outcome of generate_pdf and what generate_document answers when it raises
Reported(outcome) ==
    [outcome |-> outcome,
     report |-> IF outcome.t = "error" THEN GenerationFailed(outcome) ELSE NoResult]

\* generate_pdf(template_name=...) or generate_pdf(html_content=...) without
\* assets or branding, and what generate_document answers when it raises
RenderCall(encoded) ==
    /\ rout = NoResult
    /\ rout' = Reported(GeneratePdf(
                   IF rin.path = "template_name" THEN (TemplateFile :> rin.markup) ELSE <<>>,
                   IF rin.path = "template_name" THEN TemplateFile ELSE "",
                   IF rin.path = "template_name" THEN <<>> ELSE rin.markup,
                   rin.context, NoneVal, FALSE, EmptyProcessed, <<>>, NoneVal, encoded))
    /\ UNCHANGED <<storeVars, reqVars, rin, pin, pout, shopVars>>

NextRender == \E encoded \in EncoderOutcomes : RenderCall(encoded)

SpecRender == InitRender /\ [][NextRender]_vars

Rendered == rout # NoResult

\* the failure of the filter lookup, as each path reports it
UnknownFilterError(outcome) ==
    /\ outcome.t = "error"
    /\ \/ outcome.v = "TemplateAssertionError"
       \/ outcome.v = "ValueError" /\ outcome.cause = "TemplateAssertionError"

\* C9 as stated: markup applying a filter name outside the registry
\* (b64encode, format_currency, format_date) fails to resolve for every
\* context on both paths.
C9_OutsideRegistryFails ==
    (Rendered /\ ~(FiltersUsed(rin.markup) \subseteq {"b64encode", "format_currency", "format_date"}))
        => rout.outcome.t = "error"

\* C9 amended: markup applying a filter name that is neither in the registry
\* nor one of Jinja2's built-in filters fails with the unknown-filter error
\* for every context on both paths, and generate_document's answer is then a
\* result with success = false.
C9_UnknownFilterFails ==
    (Rendered /\ ~(FiltersUsed(rin.markup) \subseteq
                     {"b64encode", "format_currency", "format_date", "upper", "safe"}))
        => /\ UnknownFilterError(rout.outcome)
           /\ rout.report.type = "result"
           /\ rout.report.success = FALSE

\* markup with the unknown filter 'shout' was rendered with a context that
\* defines everything it names
C9_Witness ==
    /\ Rendered
    /\ rin.context = AcmeContext
    /\ "shout" \in FiltersUsed(rin.markup)

\* C10: on the html_content path the markup
\* Hello {{customer.name}}, total {{total|format_currency}} with
\* customer.name = "Acme" and total = 1234.5 resolves to
\* Hello Acme, total $1,234.50 (and {{total|format_currency}} to $1,234.50).
C10_CurrencyOnStoredMarkup ==
    (Rendered /\ rin.path = "html_content" /\ rin.context = AcmeContext)
        => /\ rin.markup = HelloMarkup =>
                 /\ rout.outcome.t # "error"
                 /\ rout.outcome.html =
                        <<"Hello ", "Acme", ", total ", "$", "1", ",", "2", "3", "4", ".", "5", "0">>
           /\ rin.markup = <<CurrencyNode>> =>
                 /\ rout.outcome.t # "error"
                 /\ rout.outcome.html = <<"$", "1", ",", "2", "3", "4", ".", "5", "0">>

\* the same markup on the named-template-file path, where the filters are
\* registered
FilePathCurrency ==
    (Rendered /\ rin.path = "template_name" /\ rin.context = AcmeContext
              /\ rin.markup = HelloMarkup)
        => \/ rout.outcome = Err("RenderError")
           \/ rout.outcome.html =
                  <<"Hello ", "Acme", ", total ", "$", "1", ",", "2", "3", "4", ".", "5", "0">>

(***************************************************************************)
(* The endpoints of templates_router.py, one step per access to the        *)
(* database or the file system, so that requests interleave as they do     *)
(* across worker threads.                                                  *)
(***************************************************************************)
Gens == {"g1"}
Dels == {"d1"}

PlainMarkup == << Text("Hello "), NameNode >>

TemplateRow(name, document_type, html_content) ==
    [name |-> name, document_type |-> document_type, html_content |-> html_content,
     css_content |-> NoneVal, branding_config |-> <<>>]

\* document_templates: template 1 has two assets, template 2 applies a
\* custom filter in its stored markup; no template has id 3
TemplateRows ==
    (1 :> TemplateRow("invoice", "invoice", PlainMarkup)) @@
    (2 :> TemplateRow("quote", "quote", <<CurrencyNode>>))

TemplateIds == {1, 2, 3}

AssetRow(template_id, asset_type, file_path, mime_type, is_default) ==
    [template_id |-> template_id, asset_type |-> asset_type, name |-> Str(<<asset_type>>),
     file_path |-> file_path, mime_type |-> mime_type, width |-> IntVal(150),
     height |-> NoneVal, is_default |-> is_default, display_config |-> NoneVal]

\* template_assets after two uploads for template 1
AssetRows ==
    (1 :> AssetRow(1, "logo", LogoFile, "image/png", FALSE)) @@
    (2 :> AssetRow(1, "image", ImageFile, "image/png", FALSE))

AssetIds == {1, 2, 3}

\* the dict the endpoints build from a row (lines 326-337, 375-386)
AssetListEntry(row) ==
    [asset_type |-> row.asset_type, file_path |-> row.file_path,
     mime_type |-> row.mime_type, width |-> row.width, height |-> row.height,
     is_default |-> row.is_default,
     display_config |-> IF Truthy(row.display_config) THEN row.display_config ELSE Map(<<>>)]

RECURSIVE RowsOf(_, _, _)
\* db.query(TemplateAsset).filter(template_id == ...).all(), in id order
RowsOf(table, template_id, id) ==
    IF id > Cardinality(AssetIds) THEN <<>>
    ELSE (IF id \in DOMAIN table /\ table[id].template_id = template_id
          THEN <<AssetListEntry(table[id])>> ELSE <<>>) \o RowsOf(table, template_id, id + 1)

IdleGen ==
    [pc |-> "idle", kind |-> "", template_id |-> 0, data |-> <<>>, filename |-> FileName("", "", ""),
     assets |-> <<>>, i |-> 1, processed |-> EmptyProcessed, pdf |-> <<>>,
     response |-> NoResult]

IdleDel ==
    [pc |-> "idle", template_id |-> 0, asset_id |-> 0, file_path |-> NoPath,
     response |-> NoResult]

Init ==
    /\ now = 0
    /\ docStore = EmptyStore
    /\ saveLog = <<>>
    /\ assetStore = (LogoFile :> <<1>>) @@ (ImageFile :> <<1, 0>>)
    /\ assetDirs = {"logo", "image"}
    /\ templateTable = TemplateRows
    /\ assetTable = AssetRows
    /\ gen = [g \in Gens |-> IdleGen]
    /\ del = [d \in Dels |-> IdleDel]
    /\ InitNoCalls
    /\ InitNoShop

\* how each endpoint answers an exception raised inside its try block
FailureResponse(kind, e) ==
    IF kind = "generate" THEN GenerationFailed(e) ELSE PreviewFailed(e)

\* request.output_filename or f"{template.name}_{template.document_type}"
OutputFileName(output_filename, template) ==
    IF output_filename.stem # "" THEN output_filename
    ELSE FileName("", template.name, "")

\* the template query and, inside the try block, the assets query
GenStart(g, kind, template_id, data, output_filename) ==
    /\ gen[g].pc = "idle"
    /\ IF template_id \notin DOMAIN templateTable
       THEN gen' = [gen EXCEPT ![g] = [@ EXCEPT !.pc = "done", !.kind = kind,
                        !.template_id = template_id, !.data = data,
                        !.response = TemplateNotFoundResponse]]
       ELSE LET assets_list == RowsOf(assetTable, template_id, 1)
            IN  gen' = [gen EXCEPT ![g] = [@ EXCEPT
                        !.pc = IF assets_list = <<>> THEN "render" ELSE "check",
                        !.kind = kind, !.template_id = template_id, !.data = data,
                        !.filename = OutputFileName(output_filename, templateTable[template_id]),
                        !.assets = assets_list]]
    /\ UNCHANGED <<storeVars, templateTable, assetTable, del, pureVars, shopVars>>

NextAsset(r) ==
    [r EXCEPT !.i = @ + 1, !.pc = IF r.i + 1 > Len(r.assets) THEN "render" ELSE "check"]

\* _process_assets, line 115: the existence test for the asset at hand
GenCheck(g) ==
    /\ gen[g].pc = "check"
    /\ gen' = [gen EXCEPT ![g] =
                 IF SkipAsset(@.assets[@.i], assetStore) THEN NextAsset(@)
                 ELSE [@ EXCEPT !.pc = "read"]]
    /\ UNCHANGED <<storeVars, templateTable, assetTable, del, pureVars, shopVars>>

\* _process_assets, lines 119-143: open and read the file, store its entry;
\* open() raises FileNotFoundError when the file is no longer there
GenRead(g) ==
    /\ gen[g].pc = "read"
    /\ LET r == gen[g]
           asset == r.assets[r.i]
       IN  gen' = [gen EXCEPT ![g] =
                     IF asset.file_path \in DOMAIN assetStore
                     THEN NextAsset([r EXCEPT !.processed =
                              EmbedAsset(r.processed, asset, assetStore[asset.file_path])])
                     ELSE [r EXCEPT !.pc = "done",
                              !.response = FailureResponse(r.kind, Err("FileNotFoundError"))]]
    /\ UNCHANGED <<storeVars, templateTable, assetTable, del, pureVars, shopVars>>

\* the generate_pdf call of preview_template (lines 340-347) and of
\* generate_document (lines 389-395)
RequestPdf(r, template, encoded) ==
    GeneratePdf(<<>>, "", template.html_content, r.data, template.css_content,
                r.assets # <<>>, r.processed, template.branding_config,
                IF r.kind = "preview" THEN Str(<<"PREVIEW">>) ELSE NoneVal, encoded)

\* what the request does with the outcome of generate_pdf
AfterRender(r, outcome) ==
    IF outcome.t = "error"
    THEN [r EXCEPT !.pc = "done", !.response = FailureResponse(r.kind, outcome)]
    ELSE IF r.kind = "preview"
    THEN [r EXCEPT !.pc = "done", !.pdf = outcome.v, !.response = PreviewSucceeded(outcome.v)]
    ELSE [r EXCEPT !.pc = "save", !.pdf = outcome.v]

\* the rest of generate_pdf; preview_template answers with the bytes
GenRender(g, encoded) ==
    /\ gen[g].pc = "render"
    /\ gen' = [gen EXCEPT ![g] = AfterRender(@, RequestPdf(@, templateTable[@.template_id], encoded))]
    /\ UNCHANGED <<storeVars, templateTable, assetTable, del, pureVars, shopVars>>

\* generate_document, lines 397-412: save_document, then the result
GenSave(g, k) ==
    /\ gen[g].pc = "save"
    /\ LET r == gen[g]
       IN  /\ SaveDocument(g, r.pdf, r.filename, k)
           /\ gen' = [gen EXCEPT ![g] = [r EXCEPT !.pc = "done", !.response =
                        IF k = Len(r.pdf)
                        THEN GenerationSucceeded(DocumentPath(r.pdf, r.filename, now), r.pdf)
                        ELSE GenerationFailed(Err("OSError"))]]
    /\ UNCHANGED <<now, assetStore, assetDirs, templateTable, assetTable, del, pureVars, shopVars>>

NoContent == [type |-> "response", status |-> 204]

\* delete_asset, lines 290-296
DelStart(d, template_id, asset_id) ==
    /\ del[d].pc = "idle"
    /\ del' = [del EXCEPT ![d] =
                 IF asset_id \in DOMAIN assetTable /\ assetTable[asset_id].template_id = template_id
                 THEN [@ EXCEPT !.pc = "remove", !.template_id = template_id,
                          !.asset_id = asset_id, !.file_path = assetTable[asset_id].file_path]
                 ELSE [@ EXCEPT !.pc = "done", !.template_id = template_id,
                          !.asset_id = asset_id,
                          !.response = HttpError(404, <<"Asset not found">>)]]
    /\ UNCHANGED <<storeVars, templateTable, assetTable, gen, pureVars, shopVars>>

StorageDeleteAssetSwallowingAll(d, removed) ==
    /\ del[d].pc = "remove"
    /\ assetStore' = IF removed THEN RemoveFile(assetStore, del[d].file_path) ELSE assetStore
    /\ del' = [del EXCEPT ![d] = [@ EXCEPT !.pc = "commit"]]
    /\ UNCHANGED <<now, docStore, assetDirs, saveLog, templateTable, assetTable, gen, pureVars, shopVars>>

\* StorageService.delete_asset: os.remove; FileNotFoundError is swallowed,
\* any other OSError (removed = FALSE here) reaches the caller
StorageDeleteAsset(d, removed) ==
    /\ del[d].pc = "remove"
    /\ IF removed
       THEN /\ assetStore' = RemoveFile(assetStore, del[d].file_path)
            /\ del' = [del EXCEPT ![d] = [@ EXCEPT !.pc = "commit"]]
       ELSE /\ assetStore' = assetStore
            /\ del' = [del EXCEPT ![d] = [@ EXCEPT !.pc = "done",
                          !.response = HttpError(500, <<"Internal Server Error">>)]]
    /\ UNCHANGED <<now, docStore, assetDirs, saveLog, templateTable, assetTable, gen, pureVars, shopVars>>

\* delete_asset, lines 301-305: db.delete(asset); db.commit(); a commit that
\* fails leaves the row
DbDelete(d, committed) ==
    /\ del[d].pc = "commit"
    /\ IF committed
       THEN /\ assetTable' = [id \in DOMAIN assetTable \ {del[d].asset_id} |-> assetTable[id]]
            /\ del' = [del EXCEPT ![d] = [@ EXCEPT !.pc = "done", !.response = NoContent]]
       ELSE /\ assetTable' = assetTable
            /\ del' = [del EXCEPT ![d] = [@ EXCEPT !.pc = "done",
                          !.response = HttpError(500, <<"Internal Server Error">>)]]
    /\ UNCHANGED <<storeVars, templateTable, gen, pureVars, shopVars>>

Next ==
    \/ Tick
    \/ \E g \in Gens, kind \in {"generate", "preview"}, template_id \in TemplateIds,
          data \in {AcmeContext, <<>>},
          output_filename \in {FileName("", "", ""), FileName("", "report", ".pdf")} :
           GenStart(g, kind, template_id, data, output_filename)
    \/ \E g \in Gens : GenCheck(g)
    \/ \E g \in Gens : GenRead(g)
    \/ \E g \in Gens, encoded \in EncoderOutcomes : GenRender(g, encoded)
    \/ \E g \in Gens : \E k \in 0..Len(gen[g].pdf) : GenSave(g, k)
    \/ \E d \in Dels, template_id \in TemplateIds, asset_id \in AssetIds :
           DelStart(d, template_id, asset_id)
    \/ \E d \in Dels, removed \in BOOLEAN : StorageDeleteAsset(d, removed)
    \/ \E d \in Dels, committed \in BOOLEAN : DbDelete(d, committed)

Spec == Init /\ [][Next]_vars

(***************************************************************************)
(* Properties of the endpoints                                             *)
(***************************************************************************)
\* generate_document calls that have answered
Answered(g) == gen[g].pc = "done" /\ gen[g].kind = "generate"

Succeeded(g) ==
    Answered(g) /\ gen[g].response.type = "result" /\ gen[g].response.success

\* C3 as stated: every call to generate_document ends with a generation
\* result, a missing template included, never with another kind of response.
C3_AlwaysAResult ==
    \A g \in Gens : Answered(g) => gen[g].response.type = "result"

\* C3 amended: every call to generate_document whose template exists ends
\* with a generation result, and a failure inside the pipeline (asset read,
\* rendering, encoding, storage write) gives success = false with a message
\* that starts "Document generation failed: " and names the failure; a
\* missing template ends the call with HTTP 404 "Template not found".
C3_ResultWhenTemplateExists ==
    \A g \in Gens : Answered(g) =>
        IF gen[g].template_id \in DOMAIN templateTable
        THEN /\ gen[g].response.type = "result"
             /\ ~gen[g].response.success =>
                    /\ Len(gen[g].response.message) >= 2
                    /\ Head(gen[g].response.message) = "Document generation failed: "
        ELSE gen[g].response = TemplateNotFoundResponse

\* a generate_document call failed at the storage write
C3_Witness ==
    \E g \in Gens :
        /\ Answered(g)
        /\ gen[g].template_id \in DOMAIN templateTable
        /\ gen[g].response = GenerationFailed(Err("OSError"))

\* C4: success = true only when the complete encoded document is in the
\* document store at the returned path; a result of a failed pipeline step
\* has success = false, no path and no byte length; save_document is called
\* only with the bytes generate_pdf has returned.
C4_SuccessOnlyWhenStored ==
    \A g \in Gens :
        /\ Succeeded(g) =>
              /\ gen[g].pdf \in PdfOutputs
              /\ gen[g].response.pdf_url \in DOMAIN docStore
              /\ docStore[gen[g].response.pdf_url] = gen[g].pdf
        /\ (Answered(g) /\ gen[g].template_id \in DOMAIN templateTable /\ ~Succeeded(g)) =>
              /\ gen[g].response.type = "result"
              /\ gen[g].response.success = FALSE
              /\ gen[g].response.pdf_url = NoPath
              /\ gen[g].response.pdf_size = <<>>
        /\ \A i \in DOMAIN saveLog : saveLog[i].by = g =>
              /\ gen[g].pdf \in PdfOutputs
              /\ saveLog[i].content = gen[g].pdf

\* one call has succeeded with a document of two bytes
C4_Witness ==
    \E g \in Gens : Succeeded(g) /\ Len(gen[g].pdf) = 2

\* C5: in a successful result pdf_size is the length of the bytes the
\* encoder produced, which are the bytes at the reported path.
C5_SizeIsPayloadLength ==
    \A g \in Gens : Succeeded(g) =>
        /\ gen[g].response.pdf_size = <<Len(gen[g].pdf)>>
        /\ \A i \in DOMAIN saveLog :
              (saveLog[i].by = g /\ saveLog[i].returned) =>
                  /\ saveLog[i].path = gen[g].response.pdf_url
                  /\ gen[g].response.pdf_size = <<Len(saveLog[i].written)>>

\* a successful result reports the size of a one-byte document
C5_Witness ==
    \E g \in Gens : Succeeded(g) /\ gen[g].response.pdf_size = <<1>>

\* the delete_asset calls that found their asset and have ended
Deleted(d) == del[d].pc = "done" /\ del[d].file_path # NoPath

RowRemains(d) == del[d].asset_id \in DOMAIN assetTable

FileRemains(d) == del[d].file_path \in DOMAIN assetStore

\* C6: after delete_asset, a failure of either step included, the record and
\* the file are both gone, or both remain, or the record remains without its
\* file (an orphan a reconciliation finds by testing the record's path); the
\* file never remains without its record.
C6_NoFileWithoutRecord ==
    \A d \in Dels : Deleted(d) =>
        /\ ~(FileRemains(d) /\ ~RowRemains(d))
        /\ del[d].response = NoContent => (~RowRemains(d) /\ ~FileRemains(d))

\* delete_asset failed between its two steps: the file is gone, the record remains
C6_Witness ==
    \E d \in Dels :
        /\ Deleted(d)
        /\ del[d].response = HttpError(500, <<"Internal Server Error">>)
        /\ RowRemains(d) /\ ~FileRemains(d)

\* C8: no generation call interleaved with delete_asset fails because an
\* asset's file is absent, a removal between the existence test and the read
\* included.
C8_NoFailureOnAbsentFile ==
    \A g \in Gens : gen[g].pc = "done" =>
        /\ gen[g].response # GenerationFailed(Err("FileNotFoundError"))
        /\ gen[g].response # PreviewFailed(Err("FileNotFoundError"))

(***************************************************************************)
(* Properties of the resolved markup                                       *)
(***************************************************************************)
\* the filters each path can resolve
FiltersOf(path) ==
    IF path = "template_name" THEN BuiltinFilters \cup CustomFilters ELSE BuiltinFilters

\* the rendering call has produced resolved markup
Resolved == Rendered /\ rout.outcome.t = "pdf"

\* C11: on both rendering paths a context value holding markup characters
\* never appears unescaped in the resolved markup unless the reference opts
\* out (the safe filter).
C11_EscapedByDefault ==
    (Resolved /\ "safe" \notin FiltersUsed(rin.markup))
        => \A i \in DOMAIN rout.outcome.html : rout.outcome.html[i] \notin {"<b>", "<B>"}

\* the same on the named-template-file path alone, where autoescape is on
FilePathEscaped ==
    (Resolved /\ rin.path = "template_name" /\ "safe" \notin FiltersUsed(rin.markup))
        => \A i \in DOMAIN rout.outcome.html : rout.outcome.html[i] \notin {"<b>", "<B>"}

RECURSIVE TextOnly(_)
\* what the markup resolves to when every variable reference gives empty text
TextOnly(nodes) ==
    IF nodes = <<>> THEN <<>>
    ELSE (IF Head(nodes).kind = "text" THEN <<Head(nodes).text>> ELSE <<>>) \o TextOnly(Tail(nodes))

\* C12: with a context that has none of the paths referenced (missing root
\* names, with or without a filter), every reference resolves to empty text
\* without an error and the other nodes resolve as they do without it.
C12_MissingPathIsEmpty ==
    (Rendered /\ rin.context = <<>> /\ FiltersUsed(rin.markup) \subseteq FiltersOf(rin.path))
        => \/ rout.outcome = Err("RenderError")
           \/ /\ rout.outcome.t = "pdf"
              /\ rout.outcome.html = TextOnly(rin.markup)

\* a missing root name referenced alone does resolve to empty text
MissingRootIsEmpty ==
    (Rendered /\ rin.context = <<>> /\ rin.markup = <<Text("Hello "), Var(<<"total">>, <<>>)>>)
        => \/ rout.outcome = Err("RenderError")
           \/ rout.outcome.html = <<"Hello ">>

(***************************************************************************)
(* generate_pdf called repeatedly on one service instance, at different    *)
(* times and between calls for other documents                             *)
(***************************************************************************)
MaxRepeats == 3

\* a call made for another document
OtherInput == [path |-> "html_content", markup |-> PlainMarkup, context |-> AcmeContext]

InitRepeat ==
    /\ InitStore
    /\ InitNoRequests
    /\ pin = <<>>
    /\ pout = NoResult
    /\ rin \in [path : {"template_name", "html_content"},
                markup : SeqsUpTo(MarkupNodes, 1) \cup {HelloMarkup},
                context : Contexts]
    /\ rout = <<>>

\* one more generate_pdf call, for the document of rin or for the other one
RepeatCall(input) ==
    /\ Len(rout) < MaxRepeats
    /\ rout' = Append(rout,
           [at |-> now, input |-> input,
            outcome |-> GeneratePdf(
                IF input.path = "template_name" THEN (TemplateFile :> input.markup) ELSE <<>>,
                IF input.path = "template_name" THEN TemplateFile ELSE "",
                IF input.path = "template_name" THEN <<>> ELSE input.markup,
                input.context, NoneVal, FALSE, EmptyProcessed, <<>>, NoneVal, <<1>>)])
    /\ UNCHANGED <<storeVars, reqVars, rin, pin, pout, shopVars>>

NextRepeat ==
    \/ Tick
    \/ \E input \in {rin, OtherInput} : RepeatCall(input)

SpecRepeat == InitRepeat /\ [][NextRepeat]_vars

Absent == [t |-> "absent", v |-> None]

\* what a caller may set in a branding configuration (Absent: field not set)
BrandingChoices ==
    [primary_color   : {Absent, Str(<<"#FF0000">>)},
     secondary_color : {Absent, Str(<<"#00FF00">>)},
     accent_color    : {Absent, Str(<<"#0000FF">>)},
     font_family     : {Absent, Str(<<"Georgia, serif">>)},
     logo_position   : {Absent, Str(<<"header-right">>)},
     logo_width      : {Absent, IntVal(200)},
     show_watermark  : {Absent, BoolVal(TRUE), BoolVal(FALSE)},
     watermark_text  : {Absent, NoneVal, Str(<<"CONFIDENTIAL">>)}]

\* the fields that are set, as a dict
SetFields(choice) == [k \in {f \in DOMAIN choice : choice[f] # Absent} |-> choice[k]]

\* class BrandingConfig: the value of every field left unset
BrandingConfig ==
    [primary_color   |-> Str(<<"#1E40AF">>),
     secondary_color |-> Str(<<"#64748B">>),
     accent_color    |-> Str(<<"#F59E0B">>),
     font_family     |-> Str(<<"Inter, sans-serif">>),
     logo_position   |-> Str(<<"header-left">>),
     logo_width      |-> IntVal(150),
     show_watermark  |-> BoolVal(FALSE),
     watermark_text  |-> NoneVal]

\* BrandingConfig(**given).dict(): every field, set or not
BrandingConfigDict(given) ==
    [k \in DOMAIN BrandingConfig |-> IF k \in DOMAIN given THEN given[k] ELSE BrandingConfig[k]]

\* the branding_config generate_pdf is given: the dict a caller passes
\* ("direct"), or the column create_template has stored (line 47), read back
\* by generate_document as template.branding_config or {}
GivenBranding(via, given) ==
    IF via = "create_template" /\ given # NoneVal THEN BrandingConfigDict(given)
    ELSE IF given = NoneVal THEN <<>>
    ELSE given

Styled(given, branding_config, outcome) ==
    [given |-> given, branding_config |-> branding_config, outcome |-> outcome]

InitStyle ==
    /\ InitStore
    /\ InitNoRequests
    /\ pin = <<>>
    /\ pout = NoResult
    /\ rin \in [via : {"direct", "create_template"},
                given : {SetFields(choice) : choice \in BrandingChoices} \cup {NoneVal},
                css_content : {NoneVal, Str(<<>>), Str(<<"th { color: red; }">>)},
                watermark_text : {NoneVal, Str(<<"PREVIEW">>)}]
    /\ rout = NoResult

\* generate_pdf for markup that writes the watermark entry
StyleCall ==
    /\ rout = NoResult
    /\ rout' = Styled(rin.given, GivenBranding(rin.via, rin.given),
                      GeneratePdf(<<>>, "", <<Var(<<"watermark">>, <<>>)>>, <<>>,
                                  rin.css_content, FALSE, EmptyProcessed,
                                  GivenBranding(rin.via, rin.given), rin.watermark_text, <<1>>))
    /\ UNCHANGED <<storeVars, reqVars, rin, pin, pout, shopVars>>

SpecStyle == InitStyle /\ [][StyleCall]_vars

HasStyle == rout # NoResult /\ rout.outcome.t = "pdf"

\* the text occurs in the value of some rule of the stylesheet
CssContains(css, text) ==
    \E i \in DOMAIN css : \E a \in 0..(Len(css[i].value) - Len(text)) :
        SubSeq(css[i].value, a + 1, a + Len(text)) = text

\* the defaults the specification documents for the branding fields
DocumentedDefaults ==
    [primary_color   |-> Str(<<"#1E40AF">>),
     secondary_color |-> Str(<<"#64748B">>),
     accent_color    |-> Str(<<"#F59E0B">>),
     font_family     |-> DEFAULT_FONT_FAMILY,
     logo_position   |-> Str(<<"header-left">>),
     logo_width      |-> IntVal(150)]

\* the value a field must take: the caller's when present, else the default
Expected(config, field) ==
    IF field \in DOMAIN config THEN config[field] ELSE DocumentedDefaults[field]

C15_UnsetFieldsGetProcessDefaults ==
    (HasStyle /\ rin.via = "create_template" /\ rin.given # NoneVal) =>
        \A field \in DOMAIN DocumentedDefaults \ DOMAIN rin.given :
            /\ rout.outcome.context.branding.v[field] = DocumentedDefaults[field]
            /\ field = "font_family" =>
                   CssContains(rout.outcome.css, ToText(DEFAULT_FONT_FAMILY))

\* a template created without any branding configuration does get them
NoBrandingGetsProcessDefaults ==
    (HasStyle /\ rin.via = "create_template" /\ rin.given = NoneVal) =>
        \A field \in DOMAIN DocumentedDefaults :
            rout.outcome.context.branding.v[field] = DocumentedDefaults[field]

\* the branding toggle is on, the configuration carries no watermark text
\* and no watermark text argument is given
ToggleWithoutText ==
    /\ HasStyle
    /\ rin.watermark_text = NoneVal
    /\ "show_watermark" \in DOMAIN rout.branding_config
    /\ rout.branding_config.show_watermark = BoolVal(TRUE)
    /\ "watermark_text" \in DOMAIN rout.branding_config =>
           rout.branding_config.watermark_text = NoneVal

HasWatermarkRule(css) == \E i \in DOMAIN css : css[i].selector = ".watermark"

\* C16: with show_watermark true, no watermark text in the configuration
\* (field absent or none) and no watermark text argument, the stylesheet has
\* the watermark rule and the context's watermark entry is the text "DRAFT".
C16_FallbackIsDraft ==
    ToggleWithoutText =>
        /\ HasWatermarkRule(rout.outcome.css)
        /\ "watermark" \in DOMAIN rout.outcome.context
        /\ rout.outcome.context.watermark = Str(<<"DRAFT">>)

\* the same when the watermark_text field is absent from the configuration
AbsentTextIsDraft ==
    (ToggleWithoutText /\ "watermark_text" \notin DOMAIN rout.branding_config) =>
        /\ HasWatermarkRule(rout.outcome.css)
        /\ rout.outcome.context.watermark = Str(<<"DRAFT">>)

\* a custom stylesheet fragment that is not empty
HasFragment(css_content) == css_content.t = "str" /\ css_content.v # <<>>

\* C17: with a non-empty custom fragment the composed stylesheet is the
\* generated rules followed by the fragment, unmodified and last; without a
\* fragment it is exactly the generated rules.
C17_FragmentAppendedLast ==
    HasStyle =>
        IF HasFragment(rin.css_content)
        THEN /\ rout.outcome.css[Len(rout.outcome.css)].value = rin.css_content.v
             /\ SubSeq(rout.outcome.css, 1, Len(rout.outcome.css) - 1) =
                    _generate_css(rout.branding_config, NoneVal)
        ELSE /\ rout.outcome.css = _generate_css(rout.branding_config, NoneVal)
             /\ \A i \in DOMAIN rout.outcome.css :
                    rout.outcome.css[i].selector # "/* Custom CSS */"

\* a stylesheet composed from a configuration with a custom primary colour
\* and the fragment  th { color: red; }
C17_Witness ==
    /\ HasStyle
    /\ rin.css_content = Str(<<"th { color: red; }">>)
    /\ "primary_color" \in DOMAIN rout.branding_config
    /\ Len(rout.outcome.css) = 10

(***************************************************************************)
(* Properties of the embedding result                                      *)
(***************************************************************************)
Processed == pout # NoResult /\ pout.t = "ok"

\* the assets with an existing file that go to the logo slot, in input order
LogoAssets == SelectSeq(pin, LAMBDA a : FileExists(a) /\ LogoClass(a))

\* the other assets with an existing file, in input order
ImageAssets == SelectSeq(pin, LAMBDA a : FileExists(a) /\ ~LogoClass(a))

\* the inline representation expected for an asset, from its file's bytes
ExpectedUrl(asset) ==
    <<"data:", Get(asset, "mime_type", "image/png"), ";base64,">> \o
    b64encode(assetStore[asset.file_path])

\* C18: the result has at most one logo entry, present exactly when some
\* asset with an existing file has asset_type logo or is flagged default, and
\* it describes the last such asset of the input.
C18_LastLogoWins ==
    Processed =>
        /\ Len(pout.v.logo) <= 1
        /\ (pout.v.logo # <<>>) <=> (LogoAssets # <<>>)
        /\ LogoAssets # <<>> =>
              /\ pout.v.logo[1].data_url = ExpectedUrl(LogoAssets[Len(LogoAssets)])
              /\ pout.v.logo[1].width = Get(LogoAssets[Len(LogoAssets)], "width", NoneVal)

\* two assets with different files qualify for the logo slot
C18_Witness ==
    /\ Processed
    /\ Len(LogoAssets) >= 2
    /\ ExpectedUrl(LogoAssets[1]) # ExpectedUrl(LogoAssets[Len(LogoAssets)])

\* C19: the images list holds, in input order, exactly the assets with an
\* existing file that are neither asset_type logo nor flagged default; one
\* default logo and one image give one logo entry and one image.
C19_ImagesInInputOrder ==
    Processed =>
        /\ Len(pout.v.images) = Len(ImageAssets)
        /\ \A k \in DOMAIN ImageAssets :
              /\ pout.v.images[k].data_url = ExpectedUrl(ImageAssets[k])
              /\ pout.v.images[k].name = Get(ImageAssets[k], "name", NoneVal)
        /\ ( /\ pin = << AssetDict("logo", GoneFile, "image/svg+xml", TRUE),
                        AssetDict("image", ImageFile, "image/png", FALSE) >>
             /\ GoneFile \in DOMAIN assetStore )
           => Len(pout.v.logo) = 1 /\ Len(pout.v.images) = 1

\* two images with different files after a logo
C19_Witness ==
    /\ Processed
    /\ Len(pout.v.logo) = 1
    /\ Len(ImageAssets) = 2
    /\ ExpectedUrl(ImageAssets[1]) # ExpectedUrl(ImageAssets[2])

\* the position of a character in the base64 alphabet, from 0
B64Index(ch) == (CHOOSE i \in DOMAIN B64Alphabet : B64Alphabet[i] = ch) - 1

RECURSIVE b64decode(_)
\* base64 decoding: four characters to three bytes, '=' marking the padding
b64decode(text) ==
    IF Len(text) < 4 THEN <<>>
    ELSE (IF text[3] = "="
          THEN << B64Index(text[1]) * 4 + (B64Index(text[2]) \div 16) >>
          ELSE IF text[4] = "="
          THEN << B64Index(text[1]) * 4 + (B64Index(text[2]) \div 16),
                  (B64Index(text[2]) % 16) * 16 + (B64Index(text[3]) \div 4) >>
          ELSE << B64Index(text[1]) * 4 + (B64Index(text[2]) \div 16),
                  (B64Index(text[2]) % 16) * 16 + (B64Index(text[3]) \div 4),
                  (B64Index(text[3]) % 4) * 64 + B64Index(text[4]) >>)
         \o b64decode(SubSeq(text, 5, Len(text)))

\* the data URL has the form data:<mime-type>;base64,<payload> and its
\* payload decodes to the bytes
RoundTrips(data_url, mime_type, file_content) ==
    /\ Len(data_url) >= 3
    /\ SubSeq(data_url, 1, 3) = <<"data:", mime_type, ";base64,">>
    /\ b64decode(SubSeq(data_url, 4, Len(data_url))) = file_content

\* C20: every embedded asset's inline representation is
\* data:<mime-type>;base64,<payload>, and decoding the payload gives exactly
\* the bytes of the asset's file.
C20_DataUrlRoundTrip ==
    Processed =>
        /\ \A k \in DOMAIN ImageAssets :
              RoundTrips(pout.v.images[k].data_url,
                         Get(ImageAssets[k], "mime_type", "image/png"),
                         assetStore[ImageAssets[k].file_path])
        /\ LogoAssets # <<>> =>
              RoundTrips(pout.v.logo[1].data_url,
                         Get(LogoAssets[Len(LogoAssets)], "mime_type", "image/png"),
                         assetStore[LogoAssets[Len(LogoAssets)].file_path])

\* a file of four bytes, among them bytes above 127, has been embedded
C20_Witness ==
    /\ Processed
    /\ \E k \in DOMAIN ImageAssets :
          /\ Len(assetStore[ImageAssets[k].file_path]) = 4
          /\ \E i \in 1..4 : assetStore[ImageAssets[k].file_path][i] > 127

(***************************************************************************)
(* Properties of save_asset                                                *)
(***************************************************************************)
DocumentedExtensions == {".png", ".jpg", ".jpeg", ".gif", ".svg", ".webp"}

\* the save_asset invocation logged by this step, if the step is one
SaveAssetStep ==
    /\ Len(saveLog') = Len(saveLog) + 1
    /\ saveLog'[Len(saveLog')].op = "save_asset"

Rejected(entry) ==
    /\ entry.op = "save_asset"
    /\ entry.path.ext \notin DocumentedExtensions

\* C21: save_asset with a filename whose lower-cased extension is outside
\* {.png, .jpg, .jpeg, .gif, .svg, .webp} raises a ValueError whose text
\* names the extension and creates neither a file nor a directory; a call
\* that returns has written its file.
C21_DisallowedExtensionRejected ==
    /\ [](\A i \in DOMAIN saveLog :
            Rejected(saveLog[i]) =>
                /\ ~saveLog[i].returned
                /\ saveLog[i].error.type = "ValueError"
                /\ \E k \in DOMAIN saveLog[i].error.message :
                       saveLog[i].error.message[k] = saveLog[i].path.ext)
    /\ [][SaveAssetStep =>
            LET entry == saveLog'[Len(saveLog')]
            IN  /\ Rejected(entry) => assetStore' = assetStore /\ assetDirs' = assetDirs
                /\ entry.returned =>
                       /\ entry.path \in DOMAIN assetStore'
                       /\ assetStore'[entry.path] = entry.written]_vars

\* a file with a disallowed extension was offered after another was stored
C21_Witness ==
    \E i, j \in DOMAIN saveLog :
        /\ i < j
        /\ saveLog[i].op = "save_asset" /\ saveLog[i].returned
        /\ Rejected(saveLog[j])

(***************************************************************************)
(* The configured page size                                                *)
(***************************************************************************)
\* what the environment may hold for PDF_PAGE_SIZE
Environments ==
    {EmptyEnv} \cup
    { [PDF_PAGE_SIZE |-> size] : size \in {"A4", "Letter", "Legal", "A3", "letter", ""} }

\* the process starts with some environment; then generate_pdf is called
InitConfig ==
    /\ InitStore
    /\ templateTable = <<>>
    /\ assetTable = <<>>
    /\ gen = <<>>
    /\ del = <<>>
    /\ invoiceTable = <<>>
    /\ inventoryTable = <<>>
    /\ inventoryCache = <<>>
    /\ calls = <<>>
    /\ settings \in {Settings(env) : env \in Environments}
    /\ pin = <<>>
    /\ pout = NoResult
    /\ rin \in [via : {"direct", "create_template"},
                given : {NoneVal} \cup
                        { SetFields(choice) : choice \in
                            { c \in BrandingChoices :
                                \A f \in DOMAIN c \ {"font_family"} : c[f] = Absent } },
                css_content : {NoneVal, Str(<<>>), Str(<<"th { color: red; }">>)},
                watermark_text : {NoneVal, Str(<<"PREVIEW">>)}]
    /\ rout = NoResult

SpecConfig == InitConfig /\ [][StyleCall]_vars

PageSizes == {"A4", "Letter", "Legal"}

\* C22: a configured page size outside {A4, Letter, Legal} is rejected when
\* the configuration is constructed: the settings never hold one, and no
\* stylesheet is composed and no render is started with one.
C22_UnrecognizedPageSizeRejected ==
    /\ settings.PDF_PAGE_SIZE \in PageSizes
    /\ HasStyle =>
          \A i \in DOMAIN rout.outcome.css :
              rout.outcome.css[i].selector = "@page" =>
                  \E size \in PageSizes : rout.outcome.css[i].value = <<size>>

\* with the recognized sizes and with no setting, the size reaches the @page rule
RecognizedPageSizeUsed ==
    (HasStyle /\ settings.PDF_PAGE_SIZE \in PageSizes) =>
        \E i \in DOMAIN rout.outcome.css :
            /\ rout.outcome.css[i].selector = "@page"
            /\ rout.outcome.css[i].value = <<settings.PDF_PAGE_SIZE>>

(***************************************************************************)
(* generate_invoice (routers/documents.py)                                 *)
(***************************************************************************)
Invs == {"i1", "i2"}

\* the orders table: order 1 exists, order 9 does not
OrderRows == (1 :> [id |-> 1, customer_name |-> Str(<<"Acme">>), total_amount |-> Num(123450)])

OrderIds == {1, 9}

\* document_templates here: template 1 prints the invoice number; no template 3
InvoiceTemplateRows ==
    (1 :> TemplateRow("invoice", "invoice",
                      << Text("Invoice "), Var(<<"invoice_number">>, <<>>) >>))

\* template_id: int = None
GivenTemplateIds == {NoneVal, IntVal(1), IntVal(3)}

\* f"INV-{order.id}"
InvoiceNumber(order) == <<"INV-", DecimalDigits(order.id)>>

\* lines 31-48
InvoiceData(order) ==
    [customer_name |-> order.customer_name,
     total_amount |-> order.total_amount,
     subtotal |-> order.total_amount,
     invoice_number |-> Str(InvoiceNumber(order)),
     currency |-> Str(<<"USD">>)]

\* lines 95-101
InvoiceRow(order, pdf_url, template_id) ==
    [type |-> "invoice", order_id |-> order.id, invoice_number |-> InvoiceNumber(order),
     pdf_url |-> pdf_url, status |-> "issued", template_id |-> template_id]

\* order.invoice: the row of the order, if any (as a sequence of at most one)
InvoiceOf(order_id) ==
    SelectSeq(invoiceTable, LAMBDA row : row.order_id = order_id)

IdleInv ==
    [pc |-> "idle", order_id |-> 0, template_id |-> NoneVal, pdf |-> <<>>,
     pdf_url |-> NoPath, response |-> NoResult]

InitInvoice ==
    /\ now = 0
    /\ docStore = EmptyStore
    /\ saveLog = <<>>
    /\ assetStore = (LogoFile :> <<1>>) @@ (ImageFile :> <<1, 0>>)
    /\ assetDirs = {"logo", "image"}
    /\ templateTable = InvoiceTemplateRows
    /\ assetTable = AssetRows
    /\ gen = [g \in Invs |-> IdleInv]
    /\ del = <<>>
    /\ InitNoCalls
    /\ InitNoShop

\* lines 91-92: except Exception as e
InvoiceFailed(e) == HttpError(500, <<"PDF generation failed: ">> \o ErrText(e))

\* raise HTTPException(status_code=404, detail="Template not found"), as the
\* except clause of line 91 sees it
TemplateNotFoundRaised == Wrapped("404", "Template not found")

\* lines 21-28: the order query and the check for an existing invoice
InvStart(g, order_id, template_id) ==
    /\ gen[g].pc = "idle"
    /\ gen' = [gen EXCEPT ![g] =
                 IF order_id \notin DOMAIN OrderRows
                 THEN [@ EXCEPT !.pc = "done", !.order_id = order_id,
                          !.template_id = template_id,
                          !.response = HttpError(404, <<"Order not found">>)]
                 ELSE IF InvoiceOf(order_id) # <<>>
                 THEN [@ EXCEPT !.pc = "done", !.order_id = order_id,
                          !.template_id = template_id,
                          !.response = InvoiceOf(order_id)[1]]
                 ELSE [@ EXCEPT !.pc = "render", !.order_id = order_id,
                          !.template_id = template_id]]
    /\ UNCHANGED <<storeVars, templateTable, assetTable, del, pureVars, shopVars>>

\* lines 52-85: the generate_pdf call of either branch
InvoicePdf(r, templates_dir, encoded) ==
    IF Truthy(r.template_id)
    THEN IF r.template_id.v \notin DOMAIN templateTable
         THEN TemplateNotFoundRaised
         ELSE GeneratePdf(<<>>, "", templateTable[r.template_id.v].html_content,
                          InvoiceData(OrderRows[r.order_id]),
                          templateTable[r.template_id.v].css_content,
                          TRUE,
                          _process_assets(RowsOf(assetTable, r.template_id.v, 1), assetStore).v,
                          templateTable[r.template_id.v].branding_config, NoneVal, encoded)
    ELSE GeneratePdf(templates_dir, TemplateFile, <<>>, InvoiceData(OrderRows[r.order_id]),
                     NoneVal, FALSE, EmptyProcessed, <<>>, NoneVal, encoded)

InvAfterPdf(r, outcome) ==
    IF outcome.t = "error"
    THEN [r EXCEPT !.pc = "done", !.response = InvoiceFailed(outcome)]
    ELSE [r EXCEPT !.pc = "save", !.pdf = outcome.v]

\* lines 50-85, inside the try block
InvRender(g, templates_dir, encoded) ==
    /\ gen[g].pc = "render"
    /\ gen' = [gen EXCEPT ![g] = InvAfterPdf(@, InvoicePdf(@, templates_dir, encoded))]
    /\ UNCHANGED <<storeVars, templateTable, assetTable, del, pureVars, shopVars>>

\* the file name save_document is given: f"INV-{order.id}"
InvoiceFileName(order_id) == FileName("", <<"INV-", DecimalDigits(order_id)>>, "")

\* lines 87-92: save_document inside the try block
InvSave(g, k) ==
    /\ gen[g].pc = "save"
    /\ LET r == gen[g]
       IN  /\ SaveDocument(g, r.pdf, InvoiceFileName(r.order_id), k)
           /\ gen' = [gen EXCEPT ![g] =
                        IF k = Len(r.pdf)
                        THEN [r EXCEPT !.pc = "commit",
                                 !.pdf_url = DocumentPath(r.pdf, InvoiceFileName(r.order_id), now)]
                        ELSE [r EXCEPT !.pc = "done",
                                 !.response = InvoiceFailed(Err("OSError"))]]
    /\ UNCHANGED <<now, assetStore, assetDirs, templateTable, assetTable, del, pureVars, shopVars>>

\* lines 94-106: db.add, db.commit; invoices.order_id is unique, so the
\* commit raises IntegrityError when the order has got an invoice meanwhile
InvCommit(g) ==
    /\ gen[g].pc = "commit"
    /\ LET r == gen[g]
           row == InvoiceRow(OrderRows[r.order_id], r.pdf_url, r.template_id)
       IN  IF InvoiceOf(r.order_id) # <<>>
           THEN /\ invoiceTable' = invoiceTable
                /\ gen' = [gen EXCEPT ![g] = [r EXCEPT !.pc = "done",
                              !.response = HttpError(500, <<"Internal Server Error">>)]]
           ELSE /\ invoiceTable' = Append(invoiceTable, row)
                /\ gen' = [gen EXCEPT ![g] = [r EXCEPT !.pc = "done", !.response = row]]
    /\ UNCHANGED <<storeVars, templateTable, assetTable, del, pureVars,
                   inventoryTable, inventoryCache, calls, settings>>

\* what app/templates may hold
TemplateDirs == { <<>>, (TemplateFile :> << Text("Invoice "), Var(<<"invoice_number">>, <<>>) >>) }

NextInvoice ==
    \/ Tick
    \/ \E g \in Invs, order_id \in OrderIds, template_id \in GivenTemplateIds :
           InvStart(g, order_id, template_id)
    \/ \E g \in Invs, templates_dir \in TemplateDirs, encoded \in {<<>>, <<1>>, <<1, 0>>} :
           InvRender(g, templates_dir, encoded)
    \/ \E g \in Invs : \E k \in {0, Len(gen[g].pdf)} : InvSave(g, k)
    \/ \E g \in Invs : InvCommit(g)

SpecInvoice == InitInvoice /\ [][NextInvoice]_vars

InvAnswered(g) == gen[g].pc = "done"

\* the request named a template that does not exist
MissingTemplate(r) ==
    /\ r.order_id \in DOMAIN OrderRows
    /\ r.template_id # NoneVal
    /\ r.template_id.v \notin DOMAIN templateTable

\* C23: a referenced template that does not exist is reported as
\* template-not-found (404, "Template not found") by generate_invoice with a
\* template_id given, as by generate_document and preview_template, and not
\* as a generic generation failure.
C23_TemplateNotFoundSurfaced ==
    \A g \in Invs :
        (InvAnswered(g) /\ MissingTemplate(gen[g]) /\ gen[g].response.type = "http_error")
            => gen[g].response = TemplateNotFoundResponse

\* nothing is rendered or written for a template that does not exist
MissingTemplateWritesNothing ==
    \A g \in Invs :
        MissingTemplate(gen[g]) =>
            /\ gen[g].pdf = <<>>
            /\ \A i \in DOMAIN saveLog : saveLog[i].by # g

\* the documents persisted for an order: the files that a save_document
\* call for the order has written in full
DocumentsOf(order_id) ==
    { p \in DOMAIN docStore :
        \E i \in DOMAIN saveLog :
            /\ saveLog[i].op = "save_document" /\ saveLog[i].returned
            /\ saveLog[i].name = Stem(InvoiceFileName(order_id))
            /\ saveLog[i].path = p }

\* C26: for any interleaving of generate_invoice calls on the same order,
\* exactly one Invoice record is created and exactly one document is
\* persisted for that order.
C26_OneInvoiceOneDocument ==
    \A order_id \in DOMAIN OrderRows :
        /\ Len(InvoiceOf(order_id)) <= 1
        /\ Cardinality(DocumentsOf(order_id)) <= 1
        /\ InvoiceOf(order_id) # <<>> => Cardinality(DocumentsOf(order_id)) = 1

\* the unique constraint on invoices.order_id keeps the records at one
AtMostOneInvoiceRecord ==
    \A order_id \in DOMAIN OrderRows : Len(InvoiceOf(order_id)) <= 1

\* a call that finds the invoice returns it and writes nothing
ExistingInvoiceReturned ==
    [][\A g \in Invs :
          (gen[g].pc = "idle" /\ gen'[g].pc # "idle" /\ gen[g] # gen'[g]
           /\ gen'[g].order_id \in DOMAIN OrderRows /\ InvoiceOf(gen'[g].order_id) # <<>>)
          => /\ gen'[g].response = InvoiceOf(gen'[g].order_id)[1]
             /\ docStore' = docStore /\ invoiceTable' = invoiceTable]_vars

\* the save_asset calls that returned their metadata
Stored(entry) == entry.op = "save_asset" /\ entry.returned

\* C29: for every asset stored by save_asset, the byte size and MIME type in
\* the returned metadata describe the file written at file_path: file_size
\* is the length of the stored file, for re-encoded raster formats as well
\* as for formats stored byte-for-byte.
C29_MetadataDescribesStoredFile ==
    \A i \in DOMAIN saveLog :
        Stored(saveLog[i]) =>
            /\ saveLog[i].metadata.file_path = saveLog[i].path
            /\ saveLog[i].metadata.mime_type = _get_mime_type(saveLog[i].path.ext)
            /\ saveLog[i].metadata.file_size = Len(saveLog[i].written)

\* for the formats stored byte-for-byte the size is the file's
UnoptimizedSizeIsFileSize ==
    \A i \in DOMAIN saveLog :
        (Stored(saveLog[i]) /\ saveLog[i].path.ext \notin RasterExtensions) =>
            /\ saveLog[i].written = saveLog[i].content
            /\ saveLog[i].metadata.file_size = Len(saveLog[i].written)

(***************************************************************************)
(* upload_asset (routers/templates_router.py)                              *)
(***************************************************************************)
MaxUploads == 2

\* json.loads(display_config): the texts that parse, with their values
JsonTexts == (<<"{}">> :> Map(<<>>))

\* the display_config form field: not sent, a JSON object, not JSON
DisplayConfigs == {NoneVal, Str(<<"{}">>), Str(<<"{">>)}

\* lines 243-255: the row made of the form fields and the metadata
UploadedRow(template_id, asset_type, metadata, display_config_dict) ==
    [template_id |-> template_id, asset_type |-> asset_type, name |-> Str(<<asset_type>>),
     file_path |-> metadata.file_path, file_size |-> metadata.file_size,
     mime_type |-> metadata.mime_type, width |-> NoneVal, height |-> NoneVal,
     display_config |-> display_config_dict, is_default |-> FALSE]

\* the answer to one upload_asset request
Uploaded(status, detail) == [op |-> "upload_asset", status |-> status, detail |-> detail]

\* lines 234-261, after save_asset returned: the display_config, then the row
UploadRecord(template_id, asset_type, saved, display_config) ==
    IF Truthy(display_config) /\ display_config.v \notin DOMAIN JsonTexts
    THEN /\ assetTable' = assetTable
         /\ calls' = Append(calls, Uploaded(400, <<"Invalid display_config JSON">>))
    ELSE /\ assetTable' = assetTable @@
             ((Cardinality(DOMAIN assetTable) + 1) :>
                 UploadedRow(template_id, asset_type, saved.metadata,
                             IF Truthy(display_config) THEN JsonTexts[display_config.v]
                             ELSE NoneVal))
         /\ calls' = Append(calls, Uploaded(201, <<>>))

\* lines 223-232: save_asset; a ValueError becomes a 400 with its text, any
\* other exception is not caught by the handler
UploadSave(template_id, asset_type, filename, file_content, stored, display_config) ==
    /\ SaveAsset("upload", file_content, filename, asset_type, stored)
    /\ LET saved == saveLog'[Len(saveLog')]
       IN  IF saved.returned
           THEN UploadRecord(template_id, asset_type, saved, display_config)
           ELSE /\ assetTable' = assetTable
                /\ calls' = Append(calls,
                       IF saved.error.type = "ValueError"
                       THEN Uploaded(400, saved.error.message)
                       ELSE Uploaded(500, <<"Internal Server Error">>))

\* upload_asset, lines 212-261
UploadAsset(template_id, asset_type, filename, file_content, stored, display_config) ==
    /\ Len(calls) < MaxUploads
    /\ IF template_id \notin DOMAIN templateTable
       THEN /\ calls' = Append(calls, Uploaded(404, <<"Template not found">>))
            /\ UNCHANGED <<assetStore, assetDirs, saveLog, assetTable>>
       ELSE IF asset_type \notin AssetTypes
       THEN /\ calls' = Append(calls, Uploaded(400, <<"Invalid asset type: ", asset_type>>))
            /\ UNCHANGED <<assetStore, assetDirs, saveLog, assetTable>>
       ELSE UploadSave(template_id, asset_type, filename, file_content, stored, display_config)
    /\ UNCHANGED <<now, docStore, templateTable, gen, del, pureVars,
                   invoiceTable, inventoryTable, inventoryCache, settings>>

InitUpload ==
    /\ InitStore
    /\ templateTable = TemplateRows
    /\ assetTable = <<>>
    /\ gen = <<>>
    /\ del = <<>>
    /\ InitNoCalls
    /\ InitNoShop

NextUpload ==
    \/ Tick
    \/ \E template_id \in {1, 3}, asset_type \in {"logo", "banner"},
          filename \in AssetFileNames, file_content \in {<<1>>, <<0>>, <<1, 0>>},
          stored \in ReencodedOutputs, display_config \in DisplayConfigs :
           UploadAsset(template_id, asset_type, filename, file_content, stored, display_config)

SpecUpload == InitUpload /\ [][NextUpload]_vars

\* the records that reference a file
RecordsOf(path) == { id \in DOMAIN assetTable : assetTable[id].file_path = path }

\* the request answered by this step ended in an error response
UploadFailedStep ==
    /\ Len(calls') = Len(calls) + 1
    /\ calls'[Len(calls')].status >= 400

\* C27: an upload_asset request that ends in an error response leaves the
\* asset store and the Asset table unchanged, so that after any sequence of
\* uploads every file in the asset store is referenced by exactly one Asset
\* record.
C27_FailedUploadLeavesNoTrace ==
    /\ [](\A path \in DOMAIN assetStore : Cardinality(RecordsOf(path)) = 1)
    /\ [][UploadFailedStep =>
            /\ assetStore' = assetStore
            /\ assetDirs' = assetDirs
            /\ assetTable' = assetTable]_vars

\* unknown template, invalid asset type, disallowed extension: the failures
\* found before anything is created change nothing
EarlyFailureLeavesNoTrace ==
    [][(UploadFailedStep /\ (saveLog' = saveLog \/ Rejected(saveLog'[Len(saveLog')]))) =>
            /\ assetStore' = assetStore
            /\ assetDirs' = assetDirs
            /\ assetTable' = assetTable]_vars

\* every file in the store is referenced by some record
NoOrphanFile == \A path \in DOMAIN assetStore : RecordsOf(path) # {}

\* a failed upload leaves the store and the table as they were
FailedUploadChangesNothing ==
    [][UploadFailedStep => assetStore' = assetStore /\ assetTable' = assetTable]_vars

\* no file is referenced by two records
NoSharedFile == \A path \in DOMAIN assetStore : Cardinality(RecordsOf(path)) <= 1

(***************************************************************************)
(* generate_pdf and the mapping its caller passes as context               *)
(***************************************************************************)
\* line 71, context = context or {}: a non-empty mapping is the caller's own
\* object, and lines 75-87 assign to it; an empty one is replaced by a new dict
ContextAfter(context, has_assets, processed, branding_config, watermark_text) ==
    IF context = <<>> THEN context
    ELSE PdfContext(context, has_assets, processed, branding_config, watermark_text)

\* the arguments of a call other than the context
ReuseArguments ==
    [has_assets : BOOLEAN, watermark_text : {NoneVal, Str(<<"PREVIEW">>)}]

\* what _process_assets makes of the one-logo list given when has_assets
OneLogo == _process_assets(<<AssetDict("logo", LogoFile, "image/png", FALSE)>>,
                           (LogoFile :> <<1>>)).v

\* generate_pdf(html_content=..., context=mapping, assets=..., watermark_text=...)
\* for markup that writes the watermark entry
ReusePdf(mapping, arguments) ==
    GeneratePdf(<<>>, "", << Text("Mark: "), Var(<<"watermark">>, <<>>) >>, mapping,
                NoneVal, arguments.has_assets, OneLogo, <<>>, arguments.watermark_text, <<1>>)

InitReuse ==
    /\ InitStore
    /\ InitNoRequests
    /\ pin = <<>>
    /\ pout = NoResult
    /\ rin \in [original : Contexts, mapping : Contexts]
    /\ rin.original = rin.mapping
    /\ rout = <<>>

\* one more call that passes the caller's mapping; fresh is the outcome of
\* the same call given a copy of the mapping as the caller first made it
ReuseCall(arguments) ==
    /\ Len(rout) < MaxRepeats
    /\ rout' = Append(rout, [arguments |-> arguments,
                             outcome |-> ReusePdf(rin.mapping, arguments),
                             fresh |-> ReusePdf(rin.original, arguments)])
    /\ rin' = [rin EXCEPT !.mapping =
                 ContextAfter(@, arguments.has_assets, OneLogo, <<>>, arguments.watermark_text)]
    /\ UNCHANGED <<storeVars, reqVars, pin, pout, shopVars>>

SpecReuse == InitReuse /\ [][\E arguments \in ReuseArguments : ReuseCall(arguments)]_vars

\* C28: generate_pdf leaves the caller-supplied context mapping unchanged,
\* and a call that reuses the mapping gives the same result as a call with a
\* fresh copy of it: assets, branding and watermark come only from the
\* arguments of that call.
C28_ContextLeftUnchanged ==
    /\ rin.mapping = rin.original
    /\ \A i \in DOMAIN rout : rout[i].outcome = rout[i].fresh

\* a caller that passes an empty mapping each time gets independent calls
EmptyMappingIndependent ==
    rin.original = <<>> =>
        /\ rin.mapping = rin.original
        /\ \A i \in DOMAIN rout : rout[i].outcome = rout[i].fresh

\* the first call with a mapping sees only its own arguments
FirstCallAsFresh == rout # <<>> => rout[1].outcome = rout[1].fresh

(***************************************************************************)
(* The template endpoints: create, get, update, delete, duplicate          *)
(***************************************************************************)
MaxEdits == 2

\* a document_templates row (models.DocumentTemplate)
TemplateRecord(name, title, html_content, css_content, variables, branding_config) ==
    [name |-> name, title |-> title, document_type |-> "invoice",
     html_content |-> html_content, css_content |-> css_content,
     variables |-> variables, branding_config |-> branding_config,
     version |-> 1, is_active |-> TRUE, parent_template_id |-> NoneVal,
     updated_at |-> NoneVal]

\* the table before the requests: template 1, published
PublishedRows ==
    (1 :> TemplateRecord("invoice", <<"Invoice">>, PlainMarkup, NoneVal, <<"customer">>,
                         BrandingConfigDict(<<>>)))

\* an invoice issued from template 1
IssuedInvoices ==
    << InvoiceRow(OrderRows[1], DocumentPath(<<1>>, InvoiceFileName(1), 0), IntVal(1)) >>

InitTemplates ==
    /\ InitStore
    /\ templateTable = PublishedRows
    /\ assetTable = AssetRows
    /\ gen = <<>>
    /\ del = <<>>
    /\ InitNoCalls
    /\ settings = Settings(EmptyEnv)
    /\ invoiceTable = IssuedInvoices
    /\ inventoryTable = <<>>
    /\ inventoryCache = <<>>
    /\ calls = <<>>

\* the answer to one request
Answer(op, template_id, status, body) ==
    [op |-> op, template_id |-> template_id, status |-> status, body |-> body]

\* the id the database gives the next row
NextTemplateId == Cardinality(DOMAIN templateTable) + 1

\* onupdate=func.now(): an UPDATE of the row sets updated_at
Touched(old, new) ==
    IF new = old THEN old ELSE [new EXCEPT !.updated_at = IntVal(Timestamp(now))]

\* create_template, lines 38-55
CreateTemplate(name, html_content, given) ==
    /\ templateTable' = templateTable @@
           (NextTemplateId :>
               TemplateRecord(name, <<name>>, html_content, NoneVal, <<>>,
                              IF given = NoneVal THEN <<>> ELSE BrandingConfigDict(given)))
    /\ calls' = Append(calls, Answer("create_template", NextTemplateId, 201,
                                     templateTable'[NextTemplateId]))

\* get_template, lines 105-110
GetTemplate(template_id) ==
    /\ templateTable' = templateTable
    /\ calls' = Append(calls,
           IF template_id \in DOMAIN templateTable
           THEN Answer("get_template", template_id, 200, templateTable[template_id])
           ELSE Answer("get_template", template_id, 404, <<"Template not found">>))

\* lines 128-134: update_data = template_update.dict(exclude_unset=True), the
\* branding configuration as a dict, then setattr for every field sent
Updated(row, update_data) ==
    [f \in DOMAIN row |->
        IF f \notin DOMAIN update_data THEN row[f]
        ELSE IF f = "branding_config" THEN BrandingConfigDict(update_data[f])
        ELSE update_data[f]]

\* update_template, lines 122-139
UpdateTemplate(template_id, update_data) ==
    IF template_id \notin DOMAIN templateTable
    THEN /\ templateTable' = templateTable
         /\ calls' = Append(calls, Answer("update_template", template_id, 404,
                                          <<"Template not found">>))
    ELSE /\ templateTable' = [templateTable EXCEPT ![template_id] =
                                 Touched(@, Updated(@, update_data))]
         /\ calls' = Append(calls, Answer("update_template", template_id, 200,
                                          templateTable'[template_id]))

DeleteTemplateHard(template_id) ==
    IF template_id \notin DOMAIN templateTable
    THEN /\ templateTable' = templateTable
         /\ calls' = Append(calls, Answer("delete_template", template_id, 404,
                                          <<"Template not found">>))
    ELSE /\ templateTable' = [id \in DOMAIN templateTable \ {template_id} |-> templateTable[id]]
         /\ calls' = Append(calls, Answer("delete_template", template_id, 204, <<>>))

\* delete_template, lines 150-159
DeleteTemplate(template_id) ==
    IF template_id \notin DOMAIN templateTable
    THEN /\ templateTable' = templateTable
         /\ calls' = Append(calls, Answer("delete_template", template_id, 404,
                                          <<"Template not found">>))
    ELSE /\ templateTable' = [templateTable EXCEPT ![template_id] =
                                 Touched(@, [@ EXCEPT !.is_active = FALSE])]
         /\ calls' = Append(calls, Answer("delete_template", template_id, 204, <<>>))

\* duplicate_template, lines 171-194
DuplicateTemplate(template_id, new_name) ==
    IF template_id \notin DOMAIN templateTable
    THEN /\ templateTable' = templateTable
         /\ calls' = Append(calls, Answer("duplicate_template", template_id, 404,
                                          <<"Template not found">>))
    ELSE /\ templateTable' = templateTable @@
             (NextTemplateId :>
                 LET original == templateTable[template_id]
                 IN  TemplateRecord(new_name, original.title \o <<" (Copy)">>,
                                    original.html_content, original.css_content,
                                    original.variables, original.branding_config))
         /\ calls' = Append(calls, Answer("duplicate_template", template_id, 201,
                                          templateTable'[NextTemplateId]))

\* the bodies a client may send to update_template (the fields it sets)
Updates ==
    { [title |-> <<"Invoice 2024">>],
      [is_active |-> FALSE],
      [is_active |-> TRUE],
      [html_content |-> << Text("Bye "), NameNode >>],
      [css_content |-> Str(<<"th { color: red; }">>)],
      [variables |-> <<"customer", "total">>],
      [branding_config |-> [primary_color |-> Str(<<"#FF0000">>)]] }

\* one request to the template endpoints
TemplateRequest ==
    \/ \E given \in {NoneVal, [primary_color |-> Str(<<"#FF0000">>)]} :
           CreateTemplate("quote", <<CurrencyNode>>, given)
    \/ \E template_id \in 1..3 : GetTemplate(template_id)
    \/ \E template_id \in 1..3, update_data \in Updates : UpdateTemplate(template_id, update_data)
    \/ \E template_id \in 1..3 : DeleteTemplate(template_id)
    \/ \E template_id \in 1..3 : DuplicateTemplate(template_id, "copy")

NextTemplates ==
    /\ Len(calls) < MaxEdits
    /\ TemplateRequest
    /\ UNCHANGED <<storeVars, assetTable, gen, del, pureVars,
                   invoiceTable, inventoryTable, inventoryCache, settings>>

SpecTemplates == InitTemplates /\ [][NextTemplates]_vars

\* the content of a template: markup body, stylesheet override, variable
\* schema and branding configuration
Content(row) ==
    [html_content |-> row.html_content, css_content |-> row.css_content,
     variables |-> row.variables, branding_config |-> row.branding_config]

\* the request answered by this step
LastCall == calls'[Len(calls')]

\* C24: across any sequence of create_template, update_template,
\* duplicate_template and delete_template, the markup body, stylesheet
\* override, variable schema and branding configuration of a template are
\* never changed in place.
C24_ContentNeverChangedInPlace ==
    [][\A id \in DOMAIN templateTable :
          id \in DOMAIN templateTable' => Content(templateTable'[id]) = Content(templateTable[id])]_vars

\* create, duplicate and delete leave the content of every stored template alone
OnlyUpdateChangesContent ==
    [][(calls' # calls /\ LastCall.op # "update_template") =>
          \A id \in DOMAIN templateTable :
              id \in DOMAIN templateTable' /\ Content(templateTable'[id]) = Content(templateTable[id])]_vars

\* the step answers a delete_template request for a template that exists
DeleteStep(id) ==
    /\ calls' # calls
    /\ LastCall.op = "delete_template"
    /\ LastCall.template_id = id
    /\ id \in DOMAIN templateTable

\* C25 as stated: no operation removes a Template record, and
\* delete_template only sets is_active to false and leaves every other field,
\* the assets and the issued documents unchanged.
C25_DeleteChangesOnlyTheFlag ==
    [][/\ \A id \in DOMAIN templateTable : id \in DOMAIN templateTable'
       /\ assetTable' = assetTable /\ invoiceTable' = invoiceTable
       /\ \A id \in DOMAIN templateTable :
             DeleteStep(id) =>
                 templateTable'[id] = [templateTable[id] EXCEPT !.is_active = FALSE]]_vars

\* C25 amended: no operation removes a Template record; delete_template sets
\* is_active to false and, when that changes the row, its updated_at stamp,
\* and leaves every other field, every other template, the assets and the
\* issued documents unchanged; get_template returns the row of every id
\* stored, so a template referenced by an issued document stays retrievable.
C25_TemplateNeverRemoved ==
    /\ [][/\ \A id \in DOMAIN templateTable : id \in DOMAIN templateTable'
          /\ assetTable' = assetTable /\ invoiceTable' = invoiceTable
          /\ \A id \in DOMAIN templateTable :
                DeleteStep(id) =>
                    /\ ~templateTable'[id].is_active
                    /\ [templateTable'[id] EXCEPT !.is_active = TRUE, !.updated_at = NoneVal]
                         = [templateTable[id] EXCEPT !.is_active = TRUE, !.updated_at = NoneVal]
                    /\ \A other \in DOMAIN templateTable \ {id} :
                          templateTable'[other] = templateTable[other]]_vars
    /\ [](\A i \in DOMAIN invoiceTable :
            Truthy(invoiceTable[i].template_id) => invoiceTable[i].template_id.v \in DOMAIN templateTable)
    /\ [](\A i \in DOMAIN calls :
            (calls[i].op = "get_template" /\ calls[i].template_id \in DOMAIN PublishedRows)
                => calls[i].status = 200)

\* the template of an issued invoice was deleted and then fetched
C25_Witness ==
    \E i, j \in DOMAIN calls :
        /\ i < j
        /\ calls[i].op = "delete_template" /\ calls[i].status = 204
        /\ calls[j].op = "get_template" /\ calls[j].status = 200
        /\ calls[j].template_id = calls[i].template_id
        /\ \E k \in DOMAIN invoiceTable : invoiceTable[k].template_id = IntVal(calls[i].template_id)
        /\ ~calls[j].body.is_active

(***************************************************************************)
(* Inventory: read_product, update_inventory (routers/inventory.py), the   *)
(* order.created webhook (routers/integrations.py) and the redis cache     *)
(***************************************************************************)
MaxShopCalls == 3
MaxQuantity == 3

\* the products table: A (with an inventory row) and B (without one); no
\* product has SKU Z
Products == {"A", "B"}

Skus == {"A", "B", "Z"}

\* an Optional[int] is a sequence of at most one number
NoInventory == <<>>

InitInventory ==
    /\ InitStore
    /\ templateTable = <<>>
    /\ assetTable = <<>>
    /\ gen = <<>>
    /\ del = <<>>
    /\ InitNoCalls
    /\ settings = Settings(EmptyEnv)
    /\ invoiceTable = <<>>
    /\ inventoryTable = ("A" :> 2)
    /\ inventoryCache = <<>>
    /\ calls = <<>>

\* redis_client.set(f"inventory:{sku}", quantity): the value is kept as text
set_inventory_cache(cache, sku, quantity) ==
    [k \in DOMAIN cache \cup {sku} |-> IF k = sku THEN DecimalDigits(quantity) ELSE cache[k]]

\* int(cached_qty)
IntOf(text) == CHOOSE n \in 0..(MaxQuantity + 1) : DecimalDigits(n) = text

\* the answer to one request: the quantity answered and the one in the database
ShopAnswer(op, sku, status, quantity) ==
    [op |-> op, sku |-> sku, status |-> status, quantity |-> quantity,
     stored |-> IF sku \in DOMAIN inventoryTable' THEN <<inventoryTable'[sku]>> ELSE NoInventory]

\* read_product, lines 50-60: the cached quantity overrides the database's
ReadProduct(sku) ==
    /\ UNCHANGED <<inventoryTable, inventoryCache>>
    /\ calls' = Append(calls,
           IF sku \notin Products
           THEN ShopAnswer("read_product", sku, 404, NoInventory)
           ELSE IF sku \in DOMAIN inventoryCache /\ sku \in DOMAIN inventoryTable
           THEN ShopAnswer("read_product", sku, 200, <<IntOf(inventoryCache[sku])>>)
           ELSE IF sku \in DOMAIN inventoryTable
           THEN ShopAnswer("read_product", sku, 200, <<inventoryTable[sku]>>)
           ELSE ShopAnswer("read_product", sku, 200, NoInventory))

\* update_inventory, lines 64-85: the row, the commit, then the cache
UpdateInventory(sku, quantity) ==
    IF sku \notin Products
    THEN /\ UNCHANGED <<inventoryTable, inventoryCache>>
         /\ calls' = Append(calls, ShopAnswer("update_inventory", sku, 404, NoInventory))
    ELSE /\ inventoryTable' = [k \in DOMAIN inventoryTable \cup {sku} |->
                                  IF k = sku THEN quantity ELSE inventoryTable[k]]
         /\ inventoryCache' = set_inventory_cache(inventoryCache, sku, quantity)
         /\ calls' = Append(calls, ShopAnswer("update_inventory", sku, 200, <<quantity>>))

RECURSIVE Decrement(_, _, _)
\* handle_webhook, lines 44-57: for every item of a known product that has an
\* inventory row, quantity -= item quantity
Decrement(table, items, i) ==
    IF i > Len(items) THEN table
    ELSE Decrement(
           IF items[i].sku \in Products /\ items[i].sku \in DOMAIN table
           THEN [table EXCEPT ![items[i].sku] = @ - items[i].quantity]
           ELSE table,
           items, i + 1)

\* handle_webhook, lines 20-64 (the order and its items are not kept here)
HandleWebhook(event, items) ==
    /\ inventoryTable' = IF event = "order.created" THEN Decrement(inventoryTable, items, 1)
                         ELSE inventoryTable
    /\ inventoryCache' = inventoryCache
    /\ calls' = Append(calls, [op |-> "handle_webhook", sku |-> "", status |-> 200,
                               quantity |-> NoInventory, stored |-> NoInventory])

\* the items of an order
ItemLists ==
    { << >>,
      << [sku |-> "A", quantity |-> 1] >>,
      << [sku |-> "B", quantity |-> 1], [sku |-> "Z", quantity |-> 1] >> }

NextInventory ==
    /\ Len(calls) < MaxShopCalls
    /\ \/ \E sku \in Skus : ReadProduct(sku)
       \/ \E sku \in Skus, quantity \in {0, MaxQuantity} : UpdateInventory(sku, quantity)
       \/ \E event \in {"order.created", "order.paid"}, items \in ItemLists :
              HandleWebhook(event, items)
    /\ UNCHANGED <<storeVars, reqVars, pureVars, invoiceTable, settings>>

SpecInventory == InitInventory /\ [][NextInventory]_vars

\* C30: after any sequence of update_inventory calls and order.created
\* webhook deliveries, read_product returns the quantity stored in the
\* database, and the cached quantity of a SKU never differs from it.
C30_CacheAgreesWithDatabase ==
    /\ \A i \in DOMAIN calls :
          (calls[i].op = "read_product" /\ calls[i].status = 200)
              => calls[i].quantity = calls[i].stored
    /\ \A sku \in DOMAIN inventoryCache :
          IntOf(inventoryCache[sku]) = inventoryTable[sku]

\* as long as no order has been delivered the cache agrees with the database
AgreesWithoutOrders ==
    (\A i \in DOMAIN calls : calls[i].op # "handle_webhook") =>
        /\ \A i \in DOMAIN calls :
              (calls[i].op = "read_product" /\ calls[i].status = 200)
                  => calls[i].quantity = calls[i].stored
        /\ \A sku \in DOMAIN inventoryCache :
              IntOf(inventoryCache[sku]) = inventoryTable[sku]
====
